---- MODULE Spec2Model ----
(***************************************************************************)
(* Discrete-event model of the care-coordination simulations:              *)
(*   baseline_fifo.py, baseline_rulebased.py, baseline_partial.py (three   *)
(*   policy classes driving a seven-stage pipeline over two simpy          *)
(*   Resources) and simulation_engine.py (six-stage patient_journey).      *)
(*                                                                         *)
(* Time is counted in ticks of 0.01 time unit (days in the baselines,      *)
(* hours in simulation_engine).  The simpy kernel is modelled by its event *)
(* heap: events are (time, priority, eid) ordered, Initialize events are   *)
(* URGENT (0), everything else NORMAL (1).  np.random is a seeded          *)
(* generator: a state that every draw advances.                            *)
(***************************************************************************)
EXTENDS Integers, Sequences, FiniteSets, TLC

VARIABLES
    system,        \* which policy class / script is being run
    seed,          \* the seed argument of the run
    config,        \* the configuration dict
    n_patients,    \* the cohort size argument
    rng,           \* state of the global np.random generator
    now,           \* env.now
    queue,         \* env._queue: the pending events
    eid,           \* env._eid: the event id counter
    users,         \* pool -> Resource.users (holders, in grant order)
    put_queue,     \* pool -> Resource.put_queue (waiting requests, in request order)
    patients,      \* id -> Patient record
    completed,     \* completed_patients (ids of the Patient objects, in append order)
    total_processed, \* FIFOBaseline.total_processed
    urgent_queue,  \* FIFOBaseline.urgent_queue
    normal_queue,  \* FIFOBaseline.normal_queue
    next_arrival,  \* position of patient_arrival_generator in its for loop
    start_time,    \* id -> local start_time of coordinate_patient
    pa_start_time, \* id -> local pa_start_time of the partial policy's coordinate_patient
    mode,          \* HospitalEnvironment.mode of the scenario being run
    data,          \* HospitalEnvironment.data of the scenario being run
    all_results,   \* run_simulation's all_results
    run_no,        \* 1 for the first call of the runner, 2 for the repeated call
    prev_ledger,   \* the ledger the first call returned
    ml_classification_accuracy, \* PartialAutomationBaseline.ml_classification_accuracy, in percent
    error,         \* the exception the runner has raised, "none" when it has not
    trace,         \* the stage timeouts executed in the run, in execution order (history)
    prev_trace,    \* the trace of the first call
    BASE_LEGACY_PARAMS,       \* sensitivity_analysis: the module-level dict
    BASE_ORCHESTRATOR_PARAMS, \* sensitivity_analysis: the module-level dict
    legacy_params, \* the local of the sensitivity test that is running
    orch_params,   \* the local of the sensitivity test that is running
    pc,            \* the sensitivity test that is running, its loop index, the tests finished
    params,        \* HospitalEnvironment.params of the scenario being run
    returned,      \* what the caller's calls of get_next_patient returned, -1 for None
    obs            \* observation record of each case (history, not program state)

\* the state of the sensitivity_analysis script outside a scenario
sens_vars == <<BASE_LEGACY_PARAMS, BASE_ORCHESTRATOR_PARAMS, legacy_params, orch_params, pc>>

vars == <<sens_vars, params, returned,
          system, seed, config, n_patients, rng, now, queue, eid, users, put_queue,
          patients, completed, total_processed, urgent_queue, normal_queue,
          next_arrival, start_time, pa_start_time, mode, data, all_results,
          run_no, prev_ledger, ml_classification_accuracy, error, trace, prev_trace,
          obs>>

---------------------------------------------------------------------------
(* Bounds of the model *)

MaxPatients == 3
MaxSeed == 7
MaxCapacity == 2
MaxTests == 2

---------------------------------------------------------------------------
(* Program constants, in ticks of 0.01 time unit unless said otherwise *)

InterArrival == 1            \* env.timeout(0.01)
ReferralFloor == 50          \* max(0.5, delay)
FifoConfirmDelay == 50       \* delay = 0.5
RuleConfirmDelay == 25       \* delay = 0.25
PartialConfirmDelay == 20    \* delay = 0.2
PaOverlap == 100             \* self.env.now - 1.0
MinimumFloor == 1            \* max(0.01, val)
HoursPerDay == 24            \* / 24.0
AgeThreshold == 65           \* RULES['age_threshold']
AgeLow == 35                 \* np.random.randint(35, 85)
AgeHigh == 85
PartialHighAge == 70         \* patient.age >= 70
PartialMediumAge == 65       \* patient.age >= 65
UrgentPercent == 15          \* np.random.random() < 0.15
EhrPercent == 85             \* np.random.random() < 0.85
MisclassifyPercent == 15     \* np.random.random() > 0.15
DefaultAccuracy == 85        \* self.ml_classification_accuracy = 0.85
RANDOM_SEED == 42             \* sensitivity_analysis.RANDOM_SEED
EngineMachineMean == 100     \* param_dict['mean'] < 1.0
URGENT == 0                  \* simpy.core.URGENT
NORMAL == 1                  \* simpy.core.NORMAL

Baselines == {"fifo", "rulebased", "partial"}
\* the scripts that run the Legacy and Orchestrator scenarios
Engines == {"engine", "sensitivity"}
Systems == Baselines \cup Engines

Pools == {"radiology_slots", "specialist_slots"}

Stages == <<"radiology_report", "pcp_acknowledgment", "referral_processing",
            "prior_authorization", "payer_review", "specialist_scheduling",
            "patient_confirmation">>

NumStages == Len(Stages)

\* the radiology stage timed out without requesting radiology_slots
PoolOf_RadiologyUnbound(s) ==
    IF Stages[s] = "specialist_scheduling" THEN "specialist_slots" ELSE "none"

\* The pool a seven-stage pipeline stage requests, "none" for an unbound stage.
PoolOf(s) ==
    CASE Stages[s] = "radiology_report" -> "radiology_slots"
      [] Stages[s] = "specialist_scheduling" -> "specialist_slots"
      [] OTHER -> "none"

EngineStages == <<"1_Radiology_Report", "2_PCP_Ack", "3_Referral_Gen",
                  "4_PA_Prep", "5_Payer_Review", "6_Scheduling">>

EngineParamKeys == <<"radiologist_report", "pcp_ack", "referral_gen",
                     "prior_auth_prep", "payer_decision", "scheduling">>

NumEngineStages == Len(EngineStages)

---------------------------------------------------------------------------
(* np.random: a seeded generator.  A draw is a level u in 0..DrawLevels-1  *)
(* standing for the uniform variate U = u / DrawLevels.                    *)

RngModulus == 256

\* Quantiles, in percent of the scale parameter, of the families the stages
\* sample.  Families bounded below are tabulated at U = u/DrawLevels (so the
\* lowest level is the infimum of the family), the normal at the mid-points
\* of the inner levels; its outer levels stand for the two tails (six
\* standard deviations out), the samples the floors of the code act on.
ExpQ     == <<0, 13, 29, 47, 69, 98, 139, 208>>      \* -ln(1-U)
NormQ    == <<-600, -89, -49, -16, 16, 49, 89, 600>> \* standard normal
GammaQ   == <<0, 93, 134, 173, 218, 269, 331, 420>>  \* Gamma(shape 2.5, 1)
WeibullQ == <<0, 33, 50, 66, 82, 99, 120, 150>>      \* Weibull(shape 1.8)

DrawLevels == Len(ExpQ)

\* np.random.seed(seed)
SeedState(s) == (s * 41 + 7) % RngModulus

\* the generator's state transition on one draw
Advance(x) == (x * 37 + 11) % RngModulus

\* the level of the draw made in state x
Output(x) == x \div (RngModulus \div DrawLevels)

RECURSIVE AdvanceBy(_, _)
AdvanceBy(x, k) == IF k = 0 THEN x ELSE AdvanceBy(Advance(x), k - 1)

\* the k-th next draw (k = 0 is the next one) from state x
DrawAt(x, k) == Output(AdvanceBy(x, k))

\* np.random.random() < percent/100
RandomBelow(u, percent) == u * 100 < percent * DrawLevels

\* np.random.random() > percent/100
RandomAbove(u, percent) == u * 100 > percent * DrawLevels

\* np.random.choice(seq)
Choice(seq, u) == seq[1 + (u * Len(seq)) \div DrawLevels]

\* np.random.randint(lo, hi)
Randint(lo, hi, u) == lo + (u * (hi - lo)) \div DrawLevels

Max(a, b) == IF a >= b THEN a ELSE b
Abs(a) == IF a >= 0 THEN a ELSE 0 - a
Min(a, b) == IF a <= b THEN a ELSE b

\* integer square root, for arguments up to bound * bound
ISqrt(n, bound) == CHOOSE r \in 0..bound : r * r <= n /\ (r + 1) * (r + 1) > n

\* np.random.uniform(lo, hi)
UniformSample(lo, hi, u) == lo + ((hi - lo) * u) \div DrawLevels

\* np.random.exponential(scale)
ExponentialSample(scale, u) == (scale * ExpQ[u + 1]) \div 100

\* np.random.normal(mean, std)
NormalSample(mean, std, u) == mean + (std * NormQ[u + 1]) \div 100

\* np.random.gamma(shape, scale), for the configured shape
GammaSample(scale, u) == (scale * GammaQ[u + 1]) \div 100

\* scale * np.random.weibull(shape), for the configured shape
WeibullSample(scale, u) == (scale * WeibullQ[u + 1]) \div 100

\* np.random.triangular(lo, mode, hi): the inverse distribution function
TriangularSample(lo, peak, hi, u) ==
    IF u * (hi - lo) < DrawLevels * (peak - lo)
    THEN lo + ISqrt((u * (hi - lo) * (peak - lo)) \div DrawLevels, hi - lo)
    ELSE hi - ISqrt(((DrawLevels - u) * (hi - lo) * (hi - peak)) \div DrawLevels, hi - lo)

\* np.random.lognormal(mu, sigma) with mu, sigma derived from the target
\* arithmetic mean and standard deviation: median * exp(sigma_ln * z), the
\* exponential expanded to second order (positive for every z).
LognormalSample(mean, sigma, u) ==
    LET median == mean - (sigma * sigma) \div (2 * mean)
        x == (sigma * NormQ[u + 1]) \div mean
        factor == 100 + x + (x * x) \div 200
    IN (median * factor) \div 100

---------------------------------------------------------------------------
(* Configuration *)

\* The inline configuration dict of the runners, durations in ticks of 0.01
\* day, the radiology range in ticks of 0.01 hour, lambda in 1/1000 per day,
\* the no-show probability in percent.
BaseConfig ==
    [radiology_min |-> 320, radiology_max |-> 480,
     pcp_lambda |-> 125,
     referral_mean |-> 1050, referral_std |-> 210,
     pa_scale |-> 120,
     payer_min |-> 100, payer_mode |-> 200, payer_max |-> 500,
     specialist_scale |-> 2800,
     no_show_probability |-> 15, reschedule_min |-> 50, reschedule_max |-> 150,
     radiology_slots_per_week |-> 120, specialist_slots_per_week |-> 40]

\* the inline configuration with small pool capacities, zero included
SizedConfigs ==
    {[BaseConfig EXCEPT !.radiology_slots_per_week = rc,
                        !.specialist_slots_per_week = sc] :
        rc \in 0..MaxCapacity, sc \in 0..MaxCapacity}

\* configurations a caller can pass whose stage parameters yield negative
\* durations: a payer range below zero, a negative specialist scale
InvalidConfigs ==
    UNION {{[BaseConfig EXCEPT !.radiology_slots_per_week = c,
                               !.specialist_slots_per_week = c,
                               !.payer_min = -500, !.payer_mode = -200,
                               !.payer_max = -100],
            [BaseConfig EXCEPT !.radiology_slots_per_week = c,
                               !.specialist_slots_per_week = c,
                               !.specialist_scale = -2800]} : c \in {1, MaxCapacity}}

\* The configurations explored
Configs == SizedConfigs \cup InvalidConfigs

\* the values of ml_classification_accuracy explored, in percent: the one
\* __init__ assigns and a perfect classifier assigned by the caller
Accuracies == {DefaultAccuracy, 100}

\* pools built with the default capacities whatever the configuration says
Capacity_Default(cfg, pool) == IF pool = "radiology_slots" THEN 120 ELSE 40

Capacity(cfg, pool) ==
    IF pool = "radiology_slots" THEN cfg.radiology_slots_per_week
    ELSE cfg.specialist_slots_per_week

\* LEGACY_PARAMS / ORCHESTRATOR_PARAMS, in ticks of 0.01 hour
LEGACY_PARAMS ==
    [radiologist_report |-> [mean |-> 400, sigma |-> 50],
     pcp_ack |-> [mean |-> 4800, sigma |-> 100],
     referral_gen |-> [mean |-> 7200, sigma |-> 80],
     prior_auth_prep |-> [mean |-> 9600, sigma |-> 50],
     payer_decision |-> [mean |-> 12000, sigma |-> 40],
     scheduling |-> [mean |-> 16800, sigma |-> 60]]

ORCHESTRATOR_PARAMS ==
    [radiologist_report |-> [mean |-> 400, sigma |-> 50],
     pcp_ack |-> [mean |-> 200, sigma |-> 20],
     referral_gen |-> [mean |-> 5, sigma |-> 1],
     prior_auth_prep |-> [mean |-> 10, sigma |-> 1],
     payer_decision |-> [mean |-> 12000, sigma |-> 40],
     scheduling |-> [mean |-> 2400, sigma |-> 400]]

\* HospitalEnvironment.params
Params(m) == IF m = "Legacy" THEN LEGACY_PARAMS ELSE ORCHESTRATOR_PARAMS

\* A parameter table as a Python dict of dicts: each entry is either an
\* inner dict of the table's own (Own) or the inner dict of the module-level
\* table named by `alias`, shared with it (Shared).
ParamKeys == DOMAIN LEGACY_PARAMS

Own(m, sg) == [alias |-> "none", mean |-> m, sigma |-> sg]

Shared(table) == [alias |-> table, mean |-> 0, sigma |-> 0]

\* table.copy(), and the table itself where it is passed on unmodified: the
\* outer dict is new, every inner dict is the one of `table`
ShallowCopy(table) == [k \in ParamKeys |-> Shared(table)]

\* simulation_engine's HospitalEnvironment.params: the module-level table
EngineParams(m) ==
    ShallowCopy(IF m = "Legacy" THEN "LEGACY_PARAMS" ELSE "ORCHESTRATOR_PARAMS")

\* sensitivity_analysis: self.params = params if params else BASE_LEGACY_PARAMS
HospitalParams(p) == IF p = <<>> THEN ShallowCopy("BASE_LEGACY_PARAMS") ELSE p

\* the branch of generate_delay: `if param_dict['mean'] < 1.0` (machine
\* speed, normal) else (human speed, lognormal)
Family(param_dict) ==
    IF param_dict.mean < EngineMachineMean THEN "normal" ELSE "lognormal"

\* the sample returned as drawn, without the floor
generate_delay_NoFloor(param_dict, u) ==
    IF Family(param_dict) = "normal"
    THEN NormalSample(param_dict.mean, param_dict.sigma, u)
    ELSE LognormalSample(param_dict.mean, param_dict.sigma, u)

\* generate_delay(param_dict)
generate_delay(param_dict, u) ==
    LET val == IF Family(param_dict) = "normal"
               THEN NormalSample(param_dict.mean, param_dict.sigma, u)
               ELSE LognormalSample(param_dict.mean, param_dict.sigma, u)
    IN Max(MinimumFloor, val)

---------------------------------------------------------------------------
(* Cohort generation and triage *)

FifoDiagnoses == <<"diabetes", "hypertension", "acute coronary syndrome",
                   "cancer staging", "chronic kidney disease">>

Diagnoses == <<"diabetes type 2", "hypertension", "acute coronary syndrome",
               "cancer staging", "chronic kidney disease">>

DocTypes == <<"radiology report", "specialist referral", "lab results">>

\* `keyword in diagnosis.lower()` over the diagnoses of the cohorts
Contains(diagnosis, keyword) ==
    <<diagnosis, keyword>> \in
        {<<"diabetes", "diabetes">>, <<"diabetes type 2", "diabetes">>,
         <<"hypertension", "hypertension">>,
         <<"acute coronary syndrome", "acute">>,
         <<"acute coronary syndrome", "coronary">>,
         <<"cancer staging", "cancer">>}

UrgentKeywordsFifo == {"cancer", "acute", "emergency", "critical"}

RULES ==
    [age_threshold |-> AgeThreshold,
     urgent_keywords |-> {"cancer", "acute", "emergency", "critical", "urgent"},
     high_priority_conditions |-> {"diabetes", "hypertension", "coronary"}]

\* The Patient objects the runners build; one record type for the three
\* dataclasses, fields a policy's dataclass lacks keep their default here.
NewPatient(sys, i, x) ==
    LET u0 == DrawAt(x, 0)
        u1 == DrawAt(x, 1)
        u2 == DrawAt(x, 2)
    IN [id |-> i,
        arrival_time |-> 0,
        urgent_indicator |-> IF sys = "fifo" THEN RandomBelow(u0, UrgentPercent) ELSE FALSE,
        age |-> IF sys = "fifo" THEN 0 ELSE Randint(AgeLow, AgeHigh, u0),
        diagnosis |-> IF sys = "fifo" THEN Choice(FifoDiagnoses, u1)
                      ELSE Choice(Diagnoses, u1),
        document_type |-> IF sys = "rulebased" THEN Choice(DocTypes, u2) ELSE "none",
        has_ehr_integration |-> IF sys = "partial" THEN RandomBelow(u2, EhrPercent) ELSE FALSE,
        stage_times |-> <<>>,
        priority |-> "NORMAL",
        total_latency |-> 0]

\* draws one Patient construction consumes
DrawsPerPatient(sys) == IF sys = "fifo" THEN 2 ELSE 3

\* the cohort a runner generates from generator state x
Cohort(sys, n, x) ==
    [i \in 0..(n - 1) |-> NewPatient(sys, i, AdvanceBy(x, i * DrawsPerPatient(sys)))]

\* a triage that knows no urgent keyword
triage_patient_AllNormal(patient) == "normal"

\* FIFOBaseline.triage_patient
triage_patient(patient) ==
    IF \E k \in UrgentKeywordsFifo : Contains(patient.diagnosis, k)
    THEN "urgent" ELSE "normal"

\* the keyword rule tried before the age rule
classify_urgency_KeywordFirst(patient) ==
    IF \E k \in RULES.urgent_keywords : Contains(patient.diagnosis, k) THEN "URGENT"
    ELSE IF patient.age >= RULES.age_threshold THEN "HIGH"
    ELSE IF \E k \in RULES.high_priority_conditions : Contains(patient.diagnosis, k) THEN "HIGH"
    ELSE "NORMAL"

\* RuleBasedBaseline.classify_urgency
classify_urgency(patient) ==
    IF patient.age >= RULES.age_threshold THEN "HIGH"
    ELSE IF \E k \in RULES.urgent_keywords : Contains(patient.diagnosis, k) THEN "URGENT"
    ELSE IF \E k \in RULES.high_priority_conditions : Contains(patient.diagnosis, k) THEN "HIGH"
    ELSE "NORMAL"

\* PartialAutomationBaseline.classify_priority, given the next two draws
classify_priority(patient, u0, u1) ==
    IF RandomAbove(u0, MisclassifyPercent)
    THEN IF patient.age >= PartialHighAge \/ Contains(patient.diagnosis, "acute") THEN "HIGH"
         ELSE IF patient.age >= PartialMediumAge \/ Contains(patient.diagnosis, "cancer")
              THEN "MEDIUM"
         ELSE "NORMAL"
    ELSE Choice(<<"HIGH", "MEDIUM", "NORMAL">>, u1)

\* draws classify_priority consumes
ClassifyDraws(u0) == IF RandomAbove(u0, MisclassifyPercent) THEN 1 ELSE 2


---------------------------------------------------------------------------
(* Stage delays of the three policy classes *)

\* multiplication by a speedup factor given in percent
Scale(d, percent) == (d * percent) \div 100

\* the samples the seven process_* methods of FIFOBaseline draw
BaseDelay(cfg, s, u0) ==
    CASE s = 1 -> UniformSample(cfg.radiology_min, cfg.radiology_max, u0) \div HoursPerDay
      [] s = 2 -> ExponentialSample(100000 \div cfg.pcp_lambda, u0)
      [] s = 3 -> Max(ReferralFloor, NormalSample(cfg.referral_mean, cfg.referral_std, u0))
      [] s = 4 -> GammaSample(cfg.pa_scale, u0)
      [] s = 5 -> TriangularSample(cfg.payer_min, cfg.payer_mode, cfg.payer_max, u0)
      [] s = 6 -> WeibullSample(cfg.specialist_scale, u0)

\* np.random.random() < no_show_prob * factor
NoShow(cfg, u0, factorPercent) ==
    u0 * 100 * 100 < cfg.no_show_probability * factorPercent * DrawLevels

\* process_patient_confirmation of the three classes
ConfirmationDelay(cfg, u0, u1, factorPercent, speedPercent, confirmed) ==
    IF NoShow(cfg, u0, factorPercent)
    THEN Scale(UniformSample(cfg.reschedule_min, cfg.reschedule_max, u1), speedPercent)
    ELSE confirmed

\* FIFOBaseline.process_*: the delay timed out and recorded for stage s
FifoDelay(cfg, s, u0, u1) ==
    IF s = NumStages
    THEN ConfirmationDelay(cfg, u0, u1, 100, 100, FifoConfirmDelay)
    ELSE BaseDelay(cfg, s, u0)

\* RuleBasedBaseline.process_*: automated_delay of stage s
RuleDelay(cfg, s, u0, u1) ==
    CASE s = 1 -> Scale(BaseDelay(cfg, s, u0), 80)
      [] s = 2 -> Scale(BaseDelay(cfg, s, u0), 85)
      [] s = 3 -> Scale(BaseDelay(cfg, s, u0), 75)
      [] s = 4 -> Scale(BaseDelay(cfg, s, u0), 80)
      [] s = 5 -> BaseDelay(cfg, s, u0)
      [] s = 6 -> Min(Scale(BaseDelay(cfg, s, u0), 85), BaseDelay(cfg, s, u0))
      [] s = 7 -> ConfirmationDelay(cfg, u0, u1, 67, 70, RuleConfirmDelay)

\* PartialAutomationBaseline.process_*: automated_delay of stage s
PartialDelay(cfg, patient, s, u0, u1) ==
    CASE s = 1 -> IF patient.has_ehr_integration
                  THEN Scale(BaseDelay(cfg, s, u0), 70)
                  ELSE BaseDelay(cfg, s, u0)
      [] s = 2 -> Scale(BaseDelay(cfg, s, u0), 60)
      [] s = 3 -> Scale(BaseDelay(cfg, s, u0), 65)
      [] s = 4 -> Scale(BaseDelay(cfg, s, u0), 70)
      [] s = 5 -> Scale(BaseDelay(cfg, s, u0), 90)
      [] s = 6 -> Scale(BaseDelay(cfg, s, u0), 75)
      [] s = 7 -> ConfirmationDelay(cfg, u0, u1, 50, 60, PartialConfirmDelay)

\* the rule-based scheduling stage capped by the window of the case's class
StageDelay_PriorityWindow(sys, cfg, patient, s, u0, u1) ==
    CASE sys = "fifo" -> FifoDelay(cfg, s, u0, u1)
      [] sys = "rulebased" ->
           IF s = 6 /\ patient.priority = "URGENT"
           THEN Min(RuleDelay(cfg, s, u0, u1), 300)
           ELSE RuleDelay(cfg, s, u0, u1)
      [] sys = "partial" -> PartialDelay(cfg, patient, s, u0, u1)

\* the delay stage s of `patient` samples under policy sys from the next draws
StageDelay(sys, cfg, patient, s, u0, u1) ==
    CASE sys = "fifo" -> FifoDelay(cfg, s, u0, u1)
      [] sys = "rulebased" -> RuleDelay(cfg, s, u0, u1)
      [] sys = "partial" -> PartialDelay(cfg, patient, s, u0, u1)

\* a confirmation stage that always consumes a single draw
StageDraws_One(sys, cfg, s, u0) == 1

\* draws the sampling of stage s consumes
StageDraws(sys, cfg, s, u0) ==
    IF s = NumStages /\ NoShow(cfg, u0, CASE sys = "fifo" -> 100
                                          [] sys = "rulebased" -> 67
                                          [] sys = "partial" -> 50)
    THEN 2 ELSE 1

---------------------------------------------------------------------------
(* The simpy kernel *)

\* ties at equal time and priority broken in favour of the event scheduled last
Before_LastScheduledFirst(e, f) ==
    \/ e.time < f.time
    \/ e.time = f.time /\ e.prio < f.prio
    \/ e.time = f.time /\ e.prio = f.prio /\ e.eid >= f.eid

\* heap order of env._queue: (time, priority, eid)
Before(e, f) ==
    \/ e.time < f.time
    \/ e.time = f.time /\ e.prio < f.prio
    \/ e.time = f.time /\ e.prio = f.prio /\ e.eid <= f.eid

\* a queue that pops events in the order they were pushed, whatever their time
Earliest_ByEid(q) == CHOOSE e \in q : \A f \in q : e.eid <= f.eid

\* heappop(env._queue)
Earliest(q) == CHOOSE e \in q : \A f \in q : Before(e, f)

\* env.schedule(event, priority, delay) for the event that resumes `kind`
Event(t, prio, id, kind, pid, stage, delay) ==
    [time |-> t, prio |-> prio, eid |-> id, kind |-> kind, pid |-> pid,
     stage |-> stage, delay |-> delay]

\* Resource._do_put with the capacity test off by one
DoPut_OffByOne(us, cap) == Len(us) <= cap

\* Resource._do_put: a request is granted when a unit is free
DoPut(us, cap) == Len(us) < cap

\* list.remove(x) on a list without duplicates
Remove(seq, x) == SelectSeq(seq, LAMBDA y : y # x)

InSeq(seq, x) == \E i \in 1..Len(seq) : seq[i] = x

\* the stage that requests pool r
StageOfPool(r) == IF r = "radiology_slots" THEN 1 ELSE 6


\* the priority class triage gave a case, as a rank (higher is more urgent)
Rank(p) ==
    CASE system = "fifo" -> IF triage_patient(patients[p]) = "urgent" THEN 1 ELSE 0
      [] system = "rulebased" ->
           (CASE patients[p].priority = "URGENT" -> 2
              [] patients[p].priority = "HIGH" -> 1
              [] OTHER -> 0)
      [] system = "partial" ->
           (CASE patients[p].priority = "HIGH" -> 2
              [] patients[p].priority = "MEDIUM" -> 1
              [] OTHER -> 0)
      [] OTHER -> 0

\* a priority pool: the waiter of the highest priority class is served, the
\* oldest of them first
TriggerPut_Priority(us, pq, cap) ==
    IF pq # <<>> /\ DoPut(us, cap)
    THEN LET i == CHOOSE i \in 1..Len(pq) :
                      /\ \A j \in 1..Len(pq) : Rank(pq[j]) <= Rank(pq[i])
                      /\ \A j \in 1..(i - 1) : Rank(pq[j]) < Rank(pq[i])
         IN [users |-> Append(us, pq[i]),
             put_queue |-> SubSeq(pq, 1, i - 1) \o SubSeq(pq, i + 1, Len(pq)),
             granted |-> <<pq[i]>>]
    ELSE [users |-> us, put_queue |-> pq, granted |-> <<>>]

\* a pool that serves the most recent request first
TriggerPut_Newest(us, pq, cap) ==
    IF pq # <<>> /\ DoPut(us, cap)
    THEN [users |-> Append(us, pq[Len(pq)]), put_queue |-> SubSeq(pq, 1, Len(pq) - 1),
          granted |-> <<pq[Len(pq)]>>]
    ELSE [users |-> us, put_queue |-> pq, granted |-> <<>>]

\* a preemptive pool: a request that finds the pool full takes the unit of
\* the most recent holder
TriggerPut_Preempt(us, pq, cap) ==
    IF pq # <<>> /\ Len(us) >= cap /\ us # <<>>
    THEN [users |-> Append(SubSeq(us, 1, Len(us) - 1), Head(pq)),
          put_queue |-> Tail(pq), granted |-> <<Head(pq)>>]
    ELSE IF pq # <<>>
    THEN [users |-> Append(us, Head(pq)), put_queue |-> Tail(pq), granted |-> <<Head(pq)>>]
    ELSE [users |-> us, put_queue |-> pq, granted |-> <<>>]

\* BaseResource._trigger_put: the head of put_queue is granted when _do_put
\* finds a free unit; at most one request is granted per call
TriggerPut(us, pq, cap) ==
    IF pq # <<>> /\ DoPut(us, cap)
    THEN [users |-> Append(us, Head(pq)), put_queue |-> Tail(pq), granted |-> <<Head(pq)>>]
    ELSE [users |-> us, put_queue |-> pq, granted |-> <<>>]

\* the Request events _trigger_put has just succeeded, scheduled at time t
GrantEvents(tp, t, id, s) ==
    {Event(t, NORMAL, id, "granted", tp.granted[i], s, 0) : i \in 1..Len(tp.granted)}

\* a runner that does not reseed: the generator goes on from state x
Reseed_Skipped(s, x) == x

\* np.random.seed(seed) at the head of a runner, x the state before the call
Reseed(s, x) == SeedState(s)

\* completed_patients as the caller reads it: the Patient records in order
Ledger == [i \in 1..Len(completed) |-> patients[completed[i]]]

\* the observation record of a case that has not been launched: when it was
\* launched, when its outstanding request was made, the time it has spent
\* waiting for grants, <<stage, time>> of every stage process started, of
\* every stage timeout started and of every stage timeout fired, and when
\* the case completed, and the branch its classifier took ("rule" for the
\* age/diagnosis rules, "random" for the misclassification branch), and
\* <<stage, family, delay, time>> of every duration sampled for the case
FreshObs ==
    [launch |-> -1, req_at |-> -1, wait |-> 0, begun |-> <<>>, timed |-> <<>>,
     ended |-> <<>>, done_at |-> -1, classified |-> "none", sampled |-> <<>>]

\* the events pending when env.run() is entered
InitialQueue(sys, n) ==
    IF sys \in Engines
    THEN {Event(0, URGENT, i, "journey_init", i, 1, 0) : i \in 0..(n - 1)}
    ELSE {Event(0, URGENT, 0, "gen_init", -1, 0, 0)}

\* simulation_engine creates every patient process before env.run(); the
\* baselines launch theirs from patient_arrival_generator
InitialObs(sys, n) ==
    [i \in 0..(n - 1) |->
        IF sys \in Engines THEN [FreshObs EXCEPT !.launch = 0] ELSE FreshObs]

InitialEid(sys, n) == IF sys \in Engines THEN n ELSE 1

\* the states the generator may be in when the sensitivity script has been
\* loaded and nothing has seeded it
Unseeded == {0, 1}

\* the generator state when env.run() is entered, x the state seeding left
InitialRng(sys, n, x) ==
    IF sys \in Engines THEN x ELSE AdvanceBy(x, n * DrawsPerPatient(sys))

InitialPatients(sys, n, x) == IF sys \in Engines THEN Cohort(sys, 0, x) ELSE Cohort(sys, n, x)

\* a Resource built without validating its capacity
ResourceInit_Unchecked(capacity) == "none"

\* simpy.Resource(env, capacity): the exception the constructor raises
ResourceInit(capacity) == IF capacity <= 0 THEN "ValueError" ELSE "none"

\* the policy class's __init__ under configuration cfg: it builds the two
\* pools and raises what their constructors raise
Construct(cfg) ==
    IF \E r \in Pools : ResourceInit(Capacity(cfg, r)) # "none"
    THEN "ValueError" ELSE "none"

---------------------------------------------------------------------------
(* Initial state: a runner has seeded the generator, built the environment, *)
(* the policy object and the cohort, and is about to call env.run(); or the *)
(* policy's constructor has raised and the runner has ended with the error  *)

Init ==
    /\ system \in Systems
    /\ seed \in IF system = "sensitivity" THEN {RANDOM_SEED} ELSE 0..MaxSeed
    /\ n_patients \in 0..MaxPatients
    /\ config \in IF system \in Engines THEN {BaseConfig} ELSE Configs
    /\ error = IF system \in Baselines THEN Construct(config) ELSE "none"
    /\ rng \in IF system = "sensitivity" THEN Unseeded
              ELSE IF error = "none"
              THEN {InitialRng(system, n_patients, Reseed(seed, 0))}
              ELSE {Reseed(seed, 0)}
    /\ patients = IF error = "none"
                  THEN InitialPatients(system, n_patients, Reseed(seed, 0))
                  ELSE Cohort(system, 0, 0)
    /\ now = 0
    /\ queue = IF error = "none" /\ system # "sensitivity"
               THEN InitialQueue(system, n_patients) ELSE {}
    /\ eid = IF error = "none" /\ system # "sensitivity"
             THEN InitialEid(system, n_patients) ELSE 0
    /\ users = [r \in Pools |-> <<>>]
    /\ put_queue = [r \in Pools |-> <<>>]
    /\ completed = <<>>
    /\ total_processed = 0
    /\ urgent_queue = <<>>
    /\ normal_queue = <<>>
    /\ next_arrival = 0
    /\ start_time = [i \in 0..(n_patients - 1) |-> -1]
    /\ pa_start_time = [i \in 0..(n_patients - 1) |-> -1]
    /\ mode = IF system = "engine" THEN "Legacy" ELSE "none"
    /\ data = <<>>
    /\ all_results = <<>>
    /\ run_no = 1
    /\ prev_ledger = <<>>
    /\ ml_classification_accuracy \in
          IF system = "partial" THEN Accuracies ELSE {DefaultAccuracy}
    /\ trace = <<>>
    /\ prev_trace = <<>>
    /\ BASE_LEGACY_PARAMS = LEGACY_PARAMS
    /\ BASE_ORCHESTRATOR_PARAMS = ORCHESTRATOR_PARAMS
    /\ legacy_params = <<>>
    /\ orch_params = <<>>
    /\ pc = [test |-> "none", i |-> 0, done |-> 0, seed |-> 0]
    /\ params = IF system = "engine" THEN EngineParams("Legacy") ELSE <<>>
    /\ returned = <<>>
    /\ obs = InitialObs(system, n_patients)

---------------------------------------------------------------------------
(* env.step(): one action per kind of event handler *)

\* env.run() pops the earliest event as long as no step has raised
Pending(kinds) == error = "none" /\ queue # {} /\ Earliest(queue).kind \in kinds

\* an arrival generator that launches the next case without waiting
NextArrival_Immediate(t) == t

\* the time patient_arrival_generator resumes after a launch at time t:
\* yield self.env.timeout(0.01)
NextArrival(t) == t + InterArrival

\* patient_arrival_generator resumed (by its Initialize or by its timeout)
ArrivalStep ==
    /\ Pending({"gen_init", "gen_resume"})
    /\ LET ev == Earliest(queue)
           rest == queue \ {ev}
           p == next_arrival
       IN /\ now' = ev.time
          /\ IF next_arrival < n_patients
             THEN /\ queue' = rest \cup
                        {Event(ev.time, URGENT, eid, "coord_init", p, 0, 0),
                         Event(NextArrival(ev.time), NORMAL, eid + 1, "gen_resume", -1, 0, 0)}
                  /\ eid' = eid + 2
                  /\ next_arrival' = next_arrival + 1
                  /\ urgent_queue' =
                        IF system = "fifo" /\ triage_patient(patients[p]) = "urgent"
                        THEN Append(urgent_queue, p) ELSE urgent_queue
                  /\ normal_queue' =
                        IF system = "fifo" /\ triage_patient(patients[p]) # "urgent"
                        THEN Append(normal_queue, p) ELSE normal_queue
                  /\ obs' = [obs EXCEPT ![p].launch = ev.time]
             ELSE /\ queue' = rest \cup {Event(ev.time, NORMAL, eid, "gen_end", -1, 0, 0)}
                  /\ eid' = eid + 1
                  /\ UNCHANGED <<next_arrival, urgent_queue, normal_queue, obs>>
    /\ UNCHANGED <<sens_vars, returned, params, system, seed, config, n_patients,
                   ml_classification_accuracy, error,
                   trace, prev_trace, rng, users, put_queue, patients,
                   completed, total_processed, start_time, pa_start_time, mode, data,
                   all_results, run_no, prev_ledger>>

\* coordinate_patient started: start_time, triage, first stage process created
CoordStart ==
    /\ Pending({"coord_init"})
    /\ LET ev == Earliest(queue)
           rest == queue \ {ev}
           p == ev.pid
           u0 == DrawAt(rng, 0)
           u1 == DrawAt(rng, 1)
       IN /\ now' = ev.time
          /\ start_time' = [start_time EXCEPT ![p] = ev.time]
          /\ patients' =
                CASE system = "rulebased" ->
                       [patients EXCEPT ![p].priority = classify_urgency(patients[p])]
                  [] system = "partial" ->
                       [patients EXCEPT ![p].priority = classify_priority(patients[p], u0, u1)]
                  [] OTHER -> patients
          /\ rng' = IF system = "partial" THEN AdvanceBy(rng, ClassifyDraws(u0)) ELSE rng
          /\ queue' = rest \cup {Event(ev.time, URGENT, eid, "stage_init", p, 1, 0)}
          /\ eid' = eid + 1
          /\ obs' = [obs EXCEPT ![p].classified =
                        CASE system = "rulebased" -> "rule"
                          [] system = "partial" ->
                               IF ClassifyDraws(u0) = 1 THEN "rule" ELSE "random"
                          [] OTHER -> "none"]
    /\ UNCHANGED <<sens_vars, returned, params, system, seed, config, n_patients,
                   ml_classification_accuracy, error,
                   trace, prev_trace, users, put_queue, completed,
                   total_processed, urgent_queue, normal_queue, next_arrival,
                   pa_start_time, mode, data, all_results, run_no, prev_ledger>>

\* a Timeout built without validating its delay
TimeoutInit_Unchecked(delay) == "none"

\* simpy.Timeout(env, delay): the exception the constructor raises
TimeoutInit(delay) == IF delay < 0 THEN "ValueError" ELSE "none"

\* the delay the process_* method of stage s samples for case p
SampledDelay(p, s) ==
    StageDelay(system, config, patients[p], s, DrawAt(rng, 0), DrawAt(rng, 1))

\* the sampling and the env.timeout(delay) of stage s of case p at time t:
\* the timeout is scheduled, or the constructor raises inside the stage
\* process, which fails and is scheduled as a failed event
TimeoutEvent(t, id, p, s) ==
    LET d == SampledDelay(p, s)
    IN IF TimeoutInit(d) = "none"
       THEN Event(t + d, NORMAL, id, "timeout", p, s, d)
       ELSE Event(t, NORMAL, id, "stage_fail", p, s, d)

\* a process_* method started: a bound stage requests its pool, an unbound
\* stage samples its delay and times out
StageStart ==
    /\ Pending({"stage_init"})
    /\ LET ev == Earliest(queue)
           rest == queue \ {ev}
           p == ev.pid
           s == ev.stage
           r == PoolOf(s)
       IN /\ now' = ev.time
          /\ IF r # "none"
             THEN LET tp == TriggerPut(users[r], Append(put_queue[r], p), Capacity(config, r))
                  IN /\ users' = [users EXCEPT ![r] = tp.users]
                     /\ put_queue' = [put_queue EXCEPT ![r] = tp.put_queue]
                     /\ queue' = rest \cup GrantEvents(tp, ev.time, eid, s)
                     /\ eid' = eid + Len(tp.granted)
                     /\ obs' = [obs EXCEPT ![p].begun = Append(@, <<s, ev.time>>),
                                           ![p].req_at = ev.time]
                     /\ UNCHANGED rng
             ELSE /\ queue' = rest \cup {TimeoutEvent(ev.time, eid, p, s)}
                  /\ eid' = eid + 1
                  /\ rng' = AdvanceBy(rng, StageDraws(system, config, s, DrawAt(rng, 0)))
                  /\ obs' = [obs EXCEPT
                        ![p].begun = Append(@, <<s, ev.time>>),
                        ![p].timed = IF TimeoutInit(SampledDelay(p, s)) = "none"
                                     THEN Append(@, <<s, ev.time>>) ELSE @,
                        ![p].sampled =
                            Append(@, <<s, "policy", SampledDelay(p, s), ev.time>>)]
                  /\ UNCHANGED <<users, put_queue>>
    /\ UNCHANGED <<sens_vars, returned, params, system, seed, config, n_patients,
                   ml_classification_accuracy, error,
                   trace, prev_trace, patients, completed, total_processed,
                   urgent_queue, normal_queue, next_arrival, start_time, pa_start_time,
                   mode, data, all_results, run_no, prev_ledger>>

\* `yield req` returned: the holder samples its delay and times out; when
\* env.timeout raises, the exception leaves the `with` block, which releases
\* the unit, before the stage process fails
Granted ==
    /\ Pending({"granted"})
    /\ LET ev == Earliest(queue)
           rest == queue \ {ev}
           p == ev.pid
           s == ev.stage
           r == PoolOf(s)
           ok == TimeoutInit(SampledDelay(p, s)) = "none"
       IN /\ now' = ev.time
          /\ IF ok
             THEN /\ queue' = rest \cup {TimeoutEvent(ev.time, eid, p, s)}
                  /\ eid' = eid + 1
                  /\ UNCHANGED users
             ELSE /\ users' = [users EXCEPT ![r] = Remove(@, p)]
                  /\ queue' = rest \cup
                        {Event(ev.time, NORMAL, eid, "release", p, s, 0),
                         TimeoutEvent(ev.time, eid + 1, p, s)}
                  /\ eid' = eid + 2
          /\ rng' = AdvanceBy(rng, StageDraws(system, config, s, DrawAt(rng, 0)))
          /\ obs' = [obs EXCEPT
                        ![p].timed = IF ok THEN Append(@, <<s, ev.time>>) ELSE @,
                        ![p].wait = @ + (ev.time - obs[p].req_at),
                        ![p].req_at = -1,
                        ![p].sampled =
                            Append(@, <<s, "policy", SampledDelay(p, s), ev.time>>)]
    /\ UNCHANGED <<sens_vars, returned, params, system, seed, config, n_patients,
                   ml_classification_accuracy, error,
                   trace, prev_trace, put_queue, patients,
                   completed, total_processed, urgent_queue, normal_queue, next_arrival,
                   start_time, pa_start_time, mode, data, all_results, run_no, prev_ledger>>

\* the duration recorded in hours where the timeout was in days
Recorded_Hours(d) == d * HoursPerDay

\* the value a process_* method stores in patient.stage_times
Recorded(d) == d

\* the whole map replaced by the new entry
RecordStage_Clobber(st, name, d) == <<<<name, d>>>>

\* patient.stage_times[name] = d: a dict keeps its keys in insertion order
\* and an assignment to a key it already has overwrites the value in place
RecordStage(st, name, d) ==
    IF \E k \in 1..Len(st) : st[k][1] = name
    THEN [k \in 1..Len(st) |-> IF st[k][1] = name THEN <<name, d>> ELSE st[k]]
    ELSE Append(st, <<name, d>>)

\* a request that is never released
Releases_Never(s) == FALSE

\* only the specialist stage gives its unit back
Releases_SpecialistOnly(s) == PoolOf(s) = "specialist_slots"

\* whether leaving the `with` block of stage s releases a unit
Releases(s) == PoolOf(s) # "none"

\* a stage process that records into the first Patient of the cohort
PatientOf_First(ev) == 0

\* the Patient a process_* method records into: the `patient` argument it
\* was created with
PatientOf(ev) == ev.pid

\* the stage's timeout fired: the duration is recorded, a bound stage leaves
\* its `with` block (release), the stage process ends
TimeoutFire ==
    /\ Pending({"timeout"})
    /\ LET ev == Earliest(queue)
           rest == queue \ {ev}
           p == ev.pid
           s == ev.stage
           r == PoolOf(s)
       IN /\ now' = ev.time
          /\ patients' = [patients EXCEPT
                            ![PatientOf(ev)].stage_times =
                                RecordStage(@, Stages[s], Recorded(ev.delay))]
          /\ IF Releases(s)
             THEN /\ users' = [users EXCEPT ![r] = Remove(@, p)]
                  /\ queue' = rest \cup
                        {Event(ev.time, NORMAL, eid, "release", p, s, 0),
                         Event(ev.time, NORMAL, eid + 1, "stage_end", p, s, 0)}
                  /\ eid' = eid + 2
             ELSE /\ queue' = rest \cup {Event(ev.time, NORMAL, eid, "stage_end", p, s, 0)}
                  /\ eid' = eid + 1
                  /\ UNCHANGED users
          /\ obs' = [obs EXCEPT ![p].ended = Append(@, <<s, ev.time>>)]
          /\ trace' = Append(trace, <<p, s, ev.time>>)
    /\ UNCHANGED <<sens_vars, returned, params, system, seed, config, n_patients,
                   ml_classification_accuracy, error,
                   prev_trace, rng, put_queue, completed,
                   total_processed, urgent_queue, normal_queue, next_arrival, start_time,
                   pa_start_time, mode, data, all_results, run_no, prev_ledger>>

\* the Release event processed: its callback _trigger_put serves the queue
ReleaseTrigger ==
    /\ Pending({"release"})
    /\ LET ev == Earliest(queue)
           rest == queue \ {ev}
           s == ev.stage
           r == PoolOf(s)
           tp == TriggerPut(users[r], put_queue[r], Capacity(config, r))
       IN /\ now' = ev.time
          /\ users' = [users EXCEPT ![r] = tp.users]
          /\ put_queue' = [put_queue EXCEPT ![r] = tp.put_queue]
          /\ queue' = rest \cup GrantEvents(tp, ev.time, eid, s)
          /\ eid' = eid + Len(tp.granted)
    /\ UNCHANGED <<sens_vars, returned, params, system, seed, config, n_patients,
                   ml_classification_accuracy, error,
                   trace, prev_trace, rng, patients, completed,
                   total_processed, urgent_queue, normal_queue, next_arrival, start_time,
                   pa_start_time, mode, data, all_results, run_no, prev_ledger, obs>>

\* the failed stage process processed: the exception is thrown into the
\* coordinate_patient that waits for it, which does not catch it and fails
StageFail ==
    /\ Pending({"stage_fail"})
    /\ LET ev == Earliest(queue)
       IN /\ now' = ev.time
          /\ queue' = (queue \ {ev}) \cup
                {Event(ev.time, NORMAL, eid, "coord_fail", ev.pid, ev.stage, ev.delay)}
          /\ eid' = eid + 1
    /\ UNCHANGED <<sens_vars, returned, params, system, seed, config, n_patients,
                   ml_classification_accuracy, error,
                   trace, prev_trace, rng, users, put_queue, patients,
                   completed, total_processed, urgent_queue, normal_queue, next_arrival,
                   start_time, pa_start_time, mode, data, all_results, run_no,
                   prev_ledger, obs>>

\* the failed coordinate_patient processed: nothing waits for it, so
\* env.step() raises its exception, env.run() and the runner end with it
CoordFail ==
    /\ Pending({"coord_fail"})
    /\ LET ev == Earliest(queue)
       IN /\ now' = ev.time
          /\ queue' = queue \ {ev}
          /\ error' = "ValueError"
    /\ UNCHANGED <<sens_vars, returned, params, system, seed, config, n_patients,
                   ml_classification_accuracy,
                   trace, prev_trace, rng, eid, users, put_queue, patients,
                   completed, total_processed, urgent_queue, normal_queue, next_arrival,
                   start_time, pa_start_time, mode, data, all_results, run_no,
                   prev_ledger, obs>>

\* latency measured from the Patient's arrival_time field instead
LatencyOrigin_ArrivalField(p) == patients[p].arrival_time

\* the local start_time coordinate_patient subtracts from env.now
LatencyOrigin(p) == start_time[p]

RECURSIVE InsertById(_, _)
\* the case inserted at its place in arrival (id) order
InsertById(ledger, p) ==
    IF ledger = <<>> \/ p < Head(ledger) THEN <<p>> \o ledger
    ELSE <<Head(ledger)>> \o InsertById(Tail(ledger), p)

\* a ledger kept in arrival order
AppendCompleted_ArrivalOrder(ledger, p) == InsertById(ledger, p)

\* a ledger that grows at its front
AppendCompleted_Front(ledger, p) == <<p>> \o ledger

\* self.completed_patients.append(patient)
AppendCompleted(ledger, p) == Append(ledger, p)

\* a coordinator that starts the stage it has just finished over again
NextStage_Repeat(s) == s

\* a pipeline that leaves out the stage after the referral
NextStage_Skip(s) == IF s = 3 THEN s + 2 ELSE s + 1

\* the stage coordinate_patient starts when stage s has ended
NextStage(s) == s + 1

\* coordinate_patient resumed by the end of stage s: the next stage process is
\* created, or the case is completed and appended to the ledger
StageEnd ==
    /\ Pending({"stage_end"})
    /\ LET ev == Earliest(queue)
           rest == queue \ {ev}
           p == ev.pid
           s == ev.stage
       IN /\ now' = ev.time
          /\ eid' = eid + 1
          /\ IF s < NumStages
             THEN /\ queue' = rest \cup
                        {Event(ev.time, URGENT, eid, "stage_init", p, NextStage(s), 0)}
                  /\ pa_start_time' =
                        IF system = "partial" /\ Stages[s] = "referral_processing"
                        THEN [pa_start_time EXCEPT ![p] = Max(0, ev.time - PaOverlap)]
                        ELSE pa_start_time
                  /\ UNCHANGED <<patients, completed, total_processed, obs>>
             ELSE /\ patients' = [patients EXCEPT
                                    ![p].total_latency = ev.time - LatencyOrigin(p)]
                  /\ completed' = AppendCompleted(completed, p)
                  /\ total_processed' =
                        IF system = "fifo" THEN total_processed + 1 ELSE total_processed
                  /\ queue' = rest \cup {Event(ev.time, NORMAL, eid, "coord_end", p, 0, 0)}
                  /\ obs' = [obs EXCEPT ![p].done_at = ev.time]
                  /\ UNCHANGED pa_start_time
    /\ UNCHANGED <<sens_vars, returned, params, system, seed, config, n_patients,
                   ml_classification_accuracy, error,
                   trace, prev_trace, rng, users, put_queue, urgent_queue,
                   normal_queue, next_arrival, start_time, mode, data, all_results,
                   run_no, prev_ledger>>

\* the event of a finished process that nothing waits for
ProcessEnd ==
    /\ Pending({"gen_end", "coord_end", "journey_end"})
    /\ LET ev == Earliest(queue)
       IN /\ now' = ev.time
          /\ queue' = queue \ {ev}
    /\ UNCHANGED <<sens_vars, returned, params, system, seed, config, n_patients,
                   ml_classification_accuracy, error,
                   trace, prev_trace, rng, eid, users, put_queue, patients,
                   completed, total_processed, urgent_queue, normal_queue, next_arrival,
                   start_time, pa_start_time, mode, data, all_results, run_no,
                   prev_ledger, obs>>


---------------------------------------------------------------------------
(* simulation_engine.py, and its copy in sensitivity_analysis.py *)

\* hospital.params[key]: the inner dict the entry refers to, as it is now
Deref(entry, key) ==
    CASE entry.alias = "none" -> [mean |-> entry.mean, sigma |-> entry.sigma]
      [] entry.alias = "BASE_LEGACY_PARAMS" -> BASE_LEGACY_PARAMS[key]
      [] entry.alias = "BASE_ORCHESTRATOR_PARAMS" -> BASE_ORCHESTRATOR_PARAMS[key]
      [] entry.alias = "LEGACY_PARAMS" -> LEGACY_PARAMS[key]
      [] entry.alias = "ORCHESTRATOR_PARAMS" -> ORCHESTRATOR_PARAMS[key]

\* hospital.params[stage] for stage s of patient_journey
StageParams(s) == Deref(params[EngineParamKeys[s]], EngineParamKeys[s])

\* the delay patient_journey draws for stage s in the scenario being run
JourneyDelay(s) == generate_delay(StageParams(s), DrawAt(rng, 0))

\* the distribution family that delay is drawn from
JourneyFamily(s) == Family(StageParams(s))

\* a log that stamps a record with the time its stage began
log_event_StageStart(log, patient_id, stage, duration, t) ==
    Append(log, [Patient_ID |-> patient_id, Scenario |-> mode, Stage |-> stage,
                 Duration_Hours |-> duration,
                 Timestamp_Day |-> [num |-> t - duration, den |-> HoursPerDay]])

\* HospitalEnvironment.log_event(patient_id, stage, duration, start_time);
\* Timestamp_Day = start_time / 24.0 is kept as the fraction num/den
log_event(log, patient_id, stage, duration, t) ==
    Append(log, [Patient_ID |-> patient_id, Scenario |-> mode, Stage |-> stage,
                 Duration_Hours |-> duration,
                 Timestamp_Day |-> [num |-> t, den |-> HoursPerDay]])

\* patient_journey started: first delay drawn, first timeout
JourneyStart ==
    /\ Pending({"journey_init"})
    /\ LET ev == Earliest(queue)
           rest == queue \ {ev}
           p == ev.pid
           d == JourneyDelay(1)
       IN /\ now' = ev.time
          /\ rng' = Advance(rng)
          /\ queue' = rest \cup {Event(ev.time + d, NORMAL, eid, "journey_timeout", p, 1, d)}
          /\ eid' = eid + 1
          /\ obs' = [obs EXCEPT
                        ![p].begun = Append(@, <<1, ev.time>>),
                        ![p].timed = Append(@, <<1, ev.time>>),
                        ![p].sampled = Append(@, <<1, JourneyFamily(1), d, ev.time>>)]
    /\ UNCHANGED <<sens_vars, returned, params, system, seed, config, n_patients,
                   ml_classification_accuracy, error,
                   trace, prev_trace, users, put_queue, patients,
                   completed, total_processed, urgent_queue, normal_queue, next_arrival,
                   start_time, pa_start_time, mode, data, all_results, run_no, prev_ledger>>

\* patient_journey resumed by a stage's timeout: the stage is logged, then
\* the next delay is drawn and timed out, or the journey ends
JourneyTimeout ==
    /\ Pending({"journey_timeout"})
    /\ LET ev == Earliest(queue)
           rest == queue \ {ev}
           p == ev.pid
           s == ev.stage
           d == JourneyDelay(s + 1)
       IN /\ now' = ev.time
          /\ data' = log_event(data, p, EngineStages[s], ev.delay, ev.time)
          /\ eid' = eid + 1
          /\ IF s < NumEngineStages
             THEN /\ rng' = Advance(rng)
                  /\ queue' = rest \cup
                        {Event(ev.time + d, NORMAL, eid, "journey_timeout", p, s + 1, d)}
                  /\ obs' = [obs EXCEPT
                        ![p].ended = Append(@, <<s, ev.time>>),
                        ![p].begun = Append(@, <<s + 1, ev.time>>),
                        ![p].timed = Append(@, <<s + 1, ev.time>>),
                        ![p].sampled =
                            Append(@, <<s + 1, JourneyFamily(s + 1), d, ev.time>>)]
             ELSE /\ queue' = rest \cup {Event(ev.time, NORMAL, eid, "journey_end", p, 0, 0)}
                  /\ obs' = [obs EXCEPT ![p].ended = Append(@, <<s, ev.time>>),
                                        ![p].done_at = ev.time]
                  /\ UNCHANGED rng
    /\ UNCHANGED <<sens_vars, returned, params, system, seed, config, n_patients,
                   ml_classification_accuracy, error,
                   trace, prev_trace, users, put_queue, patients,
                   completed, total_processed, urgent_queue, normal_queue, next_arrival,
                   start_time, pa_start_time, mode, all_results, run_no, prev_ledger>>

\* run_simulation: the Legacy run returned; its data is collected and the
\* Orchestrator scenario is set up in a new environment (no reseeding)
EngineNextScenario ==
    /\ system \in Engines /\ queue = {} /\ mode = "Legacy"
    /\ all_results' = all_results \o data
    /\ mode' = "Orchestrator"
    /\ params' = IF system = "engine" THEN EngineParams("Orchestrator")
                 ELSE HospitalParams(orch_params)
    /\ data' = <<>>
    /\ now' = 0
    /\ queue' = InitialQueue(system, n_patients)
    /\ eid' = InitialEid(system, n_patients)
    /\ obs' = InitialObs(system, n_patients)
    /\ UNCHANGED <<sens_vars, returned, system, seed, config, n_patients,
                   ml_classification_accuracy, error,
                   trace, prev_trace, rng, users, put_queue, patients,
                   completed, total_processed, urgent_queue, normal_queue, next_arrival,
                   start_time, pa_start_time, run_no, prev_ledger>>

\* run_simulation: the Orchestrator run returned; its data is collected
EngineExport ==
    /\ system = "engine" /\ queue = {} /\ mode = "Orchestrator"
    /\ all_results' = all_results \o data
    /\ mode' = "Exported"
    /\ UNCHANGED <<sens_vars, returned, params, system, seed, config, n_patients,
                   ml_classification_accuracy, error,
                   trace, prev_trace, rng, now, queue, eid, users,
                   put_queue, patients, completed, total_processed, urgent_queue,
                   normal_queue, next_arrival, start_time, pa_start_time, data, run_no,
                   prev_ledger, obs>>

---------------------------------------------------------------------------
(* sensitivity_analysis.py: the sensitivity tests, each a loop of calls of   *)
(* run_single_simulation                                                     *)

TestNames == {"parameter_variation", "variance", "scenarios", "ai_performance"}

\* variations, in percent
Variations == <<-50, -25, -10, 0, 10, 25, 50>>

\* sigma_multipliers, in percent
SigmaMultipliers == <<50, 75, 100, 150, 200>>

\* the values of the scenarios dict, in percent
ScenarioVariations == <<-25, 0, 25, 50>>

\* ai_delays, in ticks of 0.01 hour
AiDelays == <<5, 10, 50, 100, 500>>

\* the keys sensitivity_test_parameter_variation varies
VariedKeys == {"pcp_ack", "referral_gen", "prior_auth_prep", "scheduling"}

\* the keys sensitivity_test_ai_performance assigns to
AiKeys == {"referral_gen", "prior_auth_prep"}

\* the length of the list a test loops over
Iterations(t) ==
    CASE t = "parameter_variation" -> Len(Variations)
      [] t = "variance" -> Len(SigmaMultipliers)
      [] t = "scenarios" -> Len(ScenarioVariations)
      [] t = "ai_performance" -> Len(AiDelays)

\* mean * (1 + pct / 100)
Varied(mean, pct) == (mean * (100 + pct)) \div 100

\* vary_parameters(base_params, variation_percent): a new dict of new dicts
vary_parameters(base_params, pct) ==
    [k \in DOMAIN base_params |->
        Own(Varied(base_params[k].mean, pct), base_params[k].sigma)]

\* the dict comprehension of sensitivity_test_variance: new dicts
ScaledSigma(base_params, mult) ==
    [k \in DOMAIN base_params |->
        Own(base_params[k].mean, (base_params[k].sigma * mult) \div 100)]

\* legacy_params as iteration i of test t hands it to run_single_simulation
LegacyParamsOf(t, i) ==
    CASE t = "parameter_variation" ->
           [k \in ParamKeys |->
               IF Variations[i] # 0 /\ k \in VariedKeys
               THEN Own(Varied(BASE_LEGACY_PARAMS[k].mean, Variations[i]),
                        BASE_LEGACY_PARAMS[k].sigma)
               ELSE Shared("BASE_LEGACY_PARAMS")]
      [] t = "variance" -> ScaledSigma(BASE_LEGACY_PARAMS, SigmaMultipliers[i])
      [] t = "scenarios" -> vary_parameters(BASE_LEGACY_PARAMS, ScenarioVariations[i])
      [] t = "ai_performance" -> ShallowCopy("BASE_LEGACY_PARAMS")

\* orch_params as iteration i of test t builds it, before any assignment
\* through it
OrchParamsOf(t, i) ==
    CASE t = "variance" -> ScaledSigma(BASE_ORCHESTRATOR_PARAMS, SigmaMultipliers[i])
      [] OTHER -> ShallowCopy("BASE_ORCHESTRATOR_PARAMS")

\* table[key]['mean'] = v, seen from the module-level table `name` whose
\* value is base: the assignment reaches it when the entry is its inner dict
AssignMeanBase(table, name, base, keys, v) ==
    [k \in DOMAIN base |->
        IF k \in keys /\ table[k].alias = name
        THEN [base[k] EXCEPT !.mean = v] ELSE base[k]]

\* table[key]['mean'] = v, seen from the table: an inner dict of its own
\* is updated in place
AssignMeanOwn(table, keys, v) ==
    [k \in DOMAIN table |->
        IF k \in keys /\ table[k].alias = "none"
        THEN [table[k] EXCEPT !.mean = v] ELSE table[k]]

\* the assignments iteration i of test t makes through orch_params
AssignedKeys(t) == IF t = "ai_performance" THEN AiKeys ELSE {}

\* the seed iteration i of test t passes
SeedOf(t, i) ==
    IF t = "parameter_variation" THEN Abs(RANDOM_SEED + Variations[i]) ELSE RANDOM_SEED

\* run_single_simulation: `if seed:` np.random.seed(seed)
SeedIfGiven(s, x) == IF s # 0 THEN SeedState(s) ELSE x

\* the body of a test's loop up to the first env.run(): the parameter
\* tables are built, run_single_simulation seeds the generator and sets up
\* the Legacy scenario
Iteration(t, i) ==
    /\ pc' = [pc EXCEPT !.test = t, !.i = i, !.seed = SeedOf(t, i)]
    /\ legacy_params' = LegacyParamsOf(t, i)
    /\ orch_params' = AssignMeanOwn(OrchParamsOf(t, i), AssignedKeys(t), AiDelays[i])
    /\ BASE_ORCHESTRATOR_PARAMS' =
          AssignMeanBase(OrchParamsOf(t, i), "BASE_ORCHESTRATOR_PARAMS",
                         BASE_ORCHESTRATOR_PARAMS, AssignedKeys(t), AiDelays[i])
    /\ BASE_LEGACY_PARAMS' =
          AssignMeanBase(OrchParamsOf(t, i), "BASE_LEGACY_PARAMS",
                         BASE_LEGACY_PARAMS, AssignedKeys(t), AiDelays[i])
    /\ rng' = SeedIfGiven(pc'.seed, rng)
    /\ all_results' = <<>>
    /\ mode' = "Legacy"
    /\ params' = HospitalParams(legacy_params')
    /\ data' = <<>>
    /\ now' = 0
    /\ queue' = InitialQueue(system, n_patients)
    /\ eid' = InitialEid(system, n_patients)
    /\ obs' = InitialObs(system, n_patients)
    /\ UNCHANGED <<returned,
                   system, seed, config, n_patients, ml_classification_accuracy, error,
                   trace, prev_trace, users, put_queue, patients,
                   completed, total_processed, urgent_queue, normal_queue, next_arrival,
                   start_time, pa_start_time, run_no, prev_ledger>>

\* a sensitivity test is called: the first pass of its loop
SensBegin ==
    /\ system = "sensitivity" /\ pc.test = "none" /\ pc.done < MaxTests
    /\ \E t \in TestNames : Iteration(t, 1)

\* run_single_simulation: the Orchestrator run returned; its data is
\* collected and the DataFrame returned
SensReturn ==
    /\ system = "sensitivity" /\ queue = {} /\ mode = "Orchestrator"
    /\ all_results' = all_results \o data
    /\ mode' = "Returned"
    /\ UNCHANGED <<sens_vars, returned, params, system, seed, config, n_patients,
                   ml_classification_accuracy, error,
                   trace, prev_trace, rng, now, queue, eid, users,
                   put_queue, patients, completed, total_processed, urgent_queue,
                   normal_queue, next_arrival, start_time, pa_start_time, data, run_no,
                   prev_ledger, obs>>

\* the test's loop goes on to its next pass
SensLoop ==
    /\ system = "sensitivity" /\ mode = "Returned" /\ pc.test \in TestNames
    /\ pc.i < Iterations(pc.test)
    /\ Iteration(pc.test, pc.i + 1)

\* the test's loop is exhausted: the test returns and its locals are gone
SensEnd ==
    /\ system = "sensitivity" /\ mode = "Returned" /\ pc.test \in TestNames
    /\ pc.i = Iterations(pc.test)
    /\ pc' = [test |-> "none", i |-> 0, done |-> pc.done + 1, seed |-> 0]
    /\ legacy_params' = <<>>
    /\ orch_params' = <<>>
    /\ mode' = "none"
    /\ UNCHANGED <<BASE_LEGACY_PARAMS, BASE_ORCHESTRATOR_PARAMS, params, returned,
                   system, seed, config, n_patients,
                   ml_classification_accuracy, error,
                   trace, prev_trace, rng, now, queue, eid, users,
                   put_queue, patients, completed, total_processed, urgent_queue,
                   normal_queue, next_arrival, start_time, pa_start_time, data,
                   all_results, run_no, prev_ledger, obs>>

---------------------------------------------------------------------------
(* run_single_simulation called directly, twice with the same arguments:     *)
(* the base tables and a seed of the caller's choice                         *)

\* the seeds a direct caller passes
DirectSeeds == {0, 5}

\* run_single_simulation(n, BASE_LEGACY_PARAMS, BASE_ORCHESTRATOR_PARAMS, s)
\* up to the first env.run(), as call i of the caller; prev is the table
\* the caller keeps from its earlier call
Direct(i, s, prev) ==
    /\ pc' = [pc EXCEPT !.test = "direct", !.i = i, !.seed = s]
    /\ legacy_params' = ShallowCopy("BASE_LEGACY_PARAMS")
    /\ orch_params' = ShallowCopy("BASE_ORCHESTRATOR_PARAMS")
    /\ prev_ledger' = prev
    /\ rng' = SeedIfGiven(s, rng)
    /\ all_results' = <<>>
    /\ mode' = "Legacy"
    /\ params' = HospitalParams(legacy_params')
    /\ data' = <<>>
    /\ now' = 0
    /\ queue' = InitialQueue(system, n_patients)
    /\ eid' = InitialEid(system, n_patients)
    /\ obs' = InitialObs(system, n_patients)
    /\ UNCHANGED <<BASE_LEGACY_PARAMS, BASE_ORCHESTRATOR_PARAMS, returned,
                   system, seed, config, n_patients, ml_classification_accuracy, error,
                   trace, prev_trace, users, put_queue, patients,
                   completed, total_processed, urgent_queue, normal_queue, next_arrival,
                   start_time, pa_start_time, run_no>>

\* the caller's first call
DirectBegin ==
    /\ system = "sensitivity" /\ pc.test = "none" /\ pc.done < MaxTests
    /\ \E s \in DirectSeeds : Direct(1, s, <<>>)

\* the first call returned its table: the caller keeps it and calls again
\* with the same arguments
DirectAgain ==
    /\ system = "sensitivity" /\ mode = "Returned"
    /\ pc.test = "direct" /\ pc.i = 1
    /\ Direct(2, pc.seed, all_results)

\* the second call returned: the caller is done and its locals are gone
DirectEnd ==
    /\ system = "sensitivity" /\ mode = "Returned"
    /\ pc.test = "direct" /\ pc.i = 2
    /\ pc' = [test |-> "none", i |-> 0, done |-> pc.done + 1, seed |-> 0]
    /\ legacy_params' = <<>>
    /\ orch_params' = <<>>
    /\ prev_ledger' = <<>>
    /\ mode' = "none"
    /\ UNCHANGED <<BASE_LEGACY_PARAMS, BASE_ORCHESTRATOR_PARAMS, params, returned,
                   system, seed, config, n_patients,
                   ml_classification_accuracy, error,
                   trace, prev_trace, rng, now, queue, eid, users,
                   put_queue, patients, completed, total_processed, urgent_queue,
                   normal_queue, next_arrival, start_time, pa_start_time, data,
                   all_results, run_no, obs>>

---------------------------------------------------------------------------
(* FIFOBaseline.get_next_patient, which no process of the run calls: the     *)
(* caller applies it to the system object once run_simulation has returned   *)

\* a dispatcher that serves the normal queue first
get_next_patient_NormalFirst(uq, nq) ==
    IF nq # <<>>
    THEN [result |-> Head(nq), urgent_queue |-> uq, normal_queue |-> Tail(nq)]
    ELSE IF uq # <<>>
    THEN [result |-> Head(uq), urgent_queue |-> Tail(uq), normal_queue |-> nq]
    ELSE [result |-> -1, urgent_queue |-> uq, normal_queue |-> nq]

\* FIFOBaseline.get_next_patient on the queues uq and nq: the value returned
\* (-1 for None) and the queues it leaves
get_next_patient(uq, nq) ==
    IF uq # <<>>
    THEN [result |-> Head(uq), urgent_queue |-> Tail(uq), normal_queue |-> nq]
    ELSE IF nq # <<>>
    THEN [result |-> Head(nq), urgent_queue |-> uq, normal_queue |-> Tail(nq)]
    ELSE [result |-> -1, urgent_queue |-> uq, normal_queue |-> nq]

\* the caller calls get_next_patient, until it has returned None
GetNextPatient ==
    /\ system = "fifo" /\ queue = {} /\ error = "none"
    /\ IF returned = <<>> THEN TRUE ELSE returned[Len(returned)] # -1
    /\ LET g == get_next_patient(urgent_queue, normal_queue)
       IN /\ returned' = Append(returned, g.result)
          /\ urgent_queue' = g.urgent_queue
          /\ normal_queue' = g.normal_queue
    /\ UNCHANGED <<sens_vars, params, system, seed, config, n_patients,
                   ml_classification_accuracy, error,
                   trace, prev_trace, rng, now, queue, eid, users,
                   put_queue, patients, completed, total_processed, next_arrival,
                   start_time, pa_start_time, mode, data, all_results, run_no,
                   prev_ledger, obs>>

---------------------------------------------------------------------------
(* The runner called a second time with the same arguments *)

\* a runner's steps up to env.run(): the generator is reseeded, a new
\* environment and policy object are built and the cohort is handed over
StartRun(no, cohort) ==
    /\ run_no' = no
    /\ prev_ledger' = Ledger
    /\ prev_trace' = trace
    /\ rng' = InitialRng(system, n_patients, Reseed(seed, rng))
    /\ patients' = cohort
    /\ now' = 0
    /\ queue' = InitialQueue(system, n_patients)
    /\ eid' = InitialEid(system, n_patients)
    /\ users' = [r \in Pools |-> <<>>]
    /\ put_queue' = [r \in Pools |-> <<>>]
    /\ completed' = <<>>
    /\ total_processed' = 0
    /\ urgent_queue' = <<>>
    /\ normal_queue' = <<>>
    /\ next_arrival' = 0
    /\ start_time' = [i \in 0..(n_patients - 1) |-> -1]
    /\ pa_start_time' = [i \in 0..(n_patients - 1) |-> -1]
    /\ obs' = InitialObs(system, n_patients)
    /\ trace' = <<>>
    /\ UNCHANGED <<sens_vars, returned, params, system, seed, config, n_patients,
                   ml_classification_accuracy, error,
                   mode, data, all_results>>

RunAgain ==
    /\ system \in Baselines /\ queue = {} /\ run_no = 1 /\ error = "none"
    /\ returned = <<>>
    /\ StartRun(2, InitialPatients(system, n_patients, Reseed(seed, rng)))

\* a case with the same id whose age and diagnosis put it in another class
OtherClass(patient) ==
    IF classify_urgency(patient) = "URGENT"
    THEN [patient EXCEPT !.age = AgeLow, !.diagnosis = "chronic kidney disease"]
    ELSE [patient EXCEPT !.age = AgeLow, !.diagnosis = "acute coronary syndrome"]

\* RuleBasedBaseline.run_simulation called, from the same generator state,
\* on a cohort that differs from the first one in the classes of its cases
RunOtherClasses ==
    /\ system = "rulebased" /\ queue = {} /\ run_no = 1 /\ error = "none"
    /\ returned = <<>>
    /\ LET cohort == InitialPatients(system, n_patients, Reseed(seed, rng))
       IN StartRun(3, [i \in DOMAIN cohort |-> OtherClass(cohort[i])])

Next ==
    \/ ArrivalStep
    \/ CoordStart
    \/ StageStart
    \/ Granted
    \/ TimeoutFire
    \/ ReleaseTrigger
    \/ StageEnd
    \/ StageFail
    \/ CoordFail
    \/ ProcessEnd
    \/ JourneyStart
    \/ JourneyTimeout
    \/ EngineNextScenario
    \/ EngineExport
    \/ SensBegin
    \/ SensReturn
    \/ SensLoop
    \/ SensEnd
    \/ DirectBegin
    \/ DirectAgain
    \/ DirectEnd
    \/ GetNextPatient
    \/ RunAgain
    \/ RunOtherClasses

Spec == Init /\ [][Next]_vars

\* one call of a baseline runner that reaches env.run() with well-formed
\* stage parameters; the runners leave ml_classification_accuracy as
\* __init__ set it
InitRun ==
    /\ Init
    /\ system \in Baselines
    /\ config \in SizedConfigs
    /\ error = "none"
    /\ ml_classification_accuracy = DefaultAccuracy

\* the steps of env.run() in a baseline
NextRun ==
    \/ ArrivalStep
    \/ CoordStart
    \/ StageStart
    \/ Granted
    \/ TimeoutFire
    \/ ReleaseTrigger
    \/ StageEnd
    \/ ProcessEnd

\* env.run() leaves its loop only when the heap is empty, so an event is
\* processed whenever one is pending
FairSpec == InitRun /\ [][NextRun]_vars /\ WF_vars(NextRun)

\* env.run() has returned
RunDone == queue = {}



---------------------------------------------------------------------------
(* Properties *)

Cases == 0..(n_patients - 1)

\* C1: in every reachable state of a run, for both pools of every baseline,
\* the number of cases holding a unit is at most the configured capacity.
C1_CapacityInvariant ==
    \A r \in Pools : Len(users[r]) <= Capacity(config, r)

\* a pool with two units, both held, and a case waiting for one
C1_Witness ==
    \E r \in Pools :
        /\ Capacity(config, r) = 2
        /\ Len(users[r]) = 2
        /\ put_queue[r] # <<>>

\* C2 (as stated): whenever a waiting case b is granted a unit of a pool, no
\* other case waiting on that pool at that moment has a higher priority class
\* than b (rule-based policy).
C2_PriorityGrantOrder ==
    [][system = "rulebased" =>
        \A r \in Pools : \A b \in Cases :
            (InSeq(users'[r], b) /\ InSeq(put_queue[r], b)) =>
                \A a \in Cases :
                    (a # b /\ InSeq(put_queue[r], a)) => Rank(a) <= Rank(b)]_vars

\* C3: a unit leaves a holder only in a step of that holder's own stage
\* process, the one in which its stage timeout fires or the one in which its
\* stage fails (it releases on leaving its stage); no request or grant of
\* another case, of any priority class, takes it away.
C3_NonRevocation ==
    [][\A r \in Pools : \A p \in Cases :
          (InSeq(users[r], p) /\ ~InSeq(users'[r], p)) =>
              /\ queue # {}
              /\ Earliest(queue).pid = p
              /\ Earliest(queue).time = now'
              /\ \/ /\ Earliest(queue).kind = "timeout"
                    /\ Len(patients'[p].stage_times) =
                          Len(patients[p].stage_times) + 1
                 \/ /\ Earliest(queue).kind = "granted"
                    /\ \E ev \in queue' : ev.kind = "stage_fail" /\ ev.pid = p]_vars

\* a holder keeps its unit while a case of a strictly higher class waits
C3_Witness ==
    \E r \in Pools : \E p, a \in Cases :
        /\ InSeq(users[r], p)
        /\ InSeq(put_queue[r], a)
        /\ Rank(a) > Rank(p)


RECURSIVE SumDurations(_)
\* sum of the durations recorded in a stage_times map
SumDurations(st) == IF st = <<>> THEN 0 ELSE Head(st)[2] + SumDurations(Tail(st))

\* C4: for every case of completed_patients, total_latency is the sum of
\* the durations in its stage_times plus the virtual time it spent waiting
\* for grants on the two pools.
C4_LatencyDecomposition ==
    system \in Baselines =>
        \A i \in 1..Len(completed) :
            LET p == completed[i]
            IN patients[p].total_latency =
                   SumDurations(patients[p].stage_times) + obs[p].wait

\* a completed case that waited for a grant
C4_Witness ==
    \E i \in 1..Len(completed) :
        /\ obs[completed[i]].wait > 0
        /\ patients[completed[i]].total_latency > obs[completed[i]].wait

\* the time at which the last stage of case p finished
LastStageEnd(p) == obs[p].ended[NumStages][2]

\* C5: for every completed case total_latency is the time its last stage
\* finished minus the time the arrival generator launched it; total_latency
\* is written only in the step that completes the case and not afterwards.
C5_LatencyIsCompletionMinusArrival ==
    /\ [](system \in Baselines =>
            \A i \in 1..Len(completed) :
                LET p == completed[i]
                IN patients[p].total_latency = LastStageEnd(p) - obs[p].launch)
    /\ [][(system \in Baselines /\ run_no' = run_no) =>
            \A p \in Cases :
                patients'[p].total_latency # patients[p].total_latency =>
                    (~InSeq(completed, p) /\ InSeq(completed', p))]_vars

\* a completed case that was launched after time 0
C5_Witness ==
    \E i \in 1..Len(completed) :
        /\ obs[completed[i]].launch > 0
        /\ patients[completed[i]].total_latency > 0

\* C6 (as stated): the ledger is in arrival order, a case that arrived
\* earlier appears before every case that arrived later.
C6_LedgerInArrivalOrder ==
    \A i, j \in 1..Len(completed) : i < j => completed[i] < completed[j]

\* C6 (amended): the ledger is in completion order: of two cases in it, one
\* that completed strictly earlier appears first, whichever arrived first.
C6_LedgerInCompletionOrder ==
    system \in Baselines =>
        \A i, j \in 1..Len(completed) :
            obs[completed[i]].done_at < obs[completed[j]].done_at => i < j

\* a case that arrived later stands before one that arrived earlier
C6_Witness ==
    \E i, j \in 1..Len(completed) :
        /\ i < j
        /\ completed[i] > completed[j]
        /\ obs[completed[i]].done_at < obs[completed[j]].done_at


\* C7: a runner called twice with the same configuration, case count and
\* seed returns the same ledger: the same cases in the same order with the
\* same priority, stage durations and total_latency.
C7_Determinism ==
    (system \in Baselines /\ run_no = 2 /\ RunDone) => Ledger = prev_ledger

\* the second call has returned a ledger of several cases, one of which waited
C7_Witness ==
    /\ system \in Baselines /\ run_no = 2 /\ RunDone
    /\ Len(completed) >= 2
    /\ \E p \in Cases : obs[p].wait > 0

JourneyLog(p) == SelectSeq(data, LAMBDA rec : rec.Patient_ID = p)

\* the recorded duration of the k-th stage of case p
Duration(p, k) ==
    IF system = "engine" THEN JourneyLog(p)[k].Duration_Hours
    ELSE patients[p].stage_times[k][2]

PipelineLength == IF system = "engine" THEN NumEngineStages ELSE NumStages

\* C9: in the FIFO and rule-based baselines and in patient_journey a case
\* runs its stages one at a time in pipeline order, each once, a stage's
\* timeout lasts its sampled duration, and stage k+1 begins no earlier than
\* the start of stage k's timeout plus that duration.
C9_SequentialStages ==
    system \in {"fifo", "rulebased", "engine"} =>
        \A p \in Cases :
            LET b == obs[p].begun
                t == obs[p].timed
                e == obs[p].ended
            IN /\ Len(b) <= PipelineLength
               /\ Len(e) <= Len(t) /\ Len(t) <= Len(b) /\ Len(b) <= Len(e) + 1
               /\ \A k \in 1..Len(b) : b[k][1] = k
               /\ \A k \in 1..Len(t) : t[k][1] = k /\ t[k][2] >= b[k][2]
               /\ \A k \in 1..Len(e) : e[k][1] = k /\ e[k][2] = t[k][2] + Duration(p, k)
               /\ \A k \in 2..Len(b) : b[k][2] >= t[k - 1][2] + Duration(p, k - 1)
               /\ p \in DOMAIN patients =>
                     /\ Len(patients[p].stage_times) = Len(e)
                     /\ \A k \in 1..Len(e) : patients[p].stage_times[k][1] = Stages[k]

\* a rule-based case that waited for a pool has run all seven stages
C9_Witness ==
    /\ system = "rulebased"
    /\ \E p \in Cases : Len(obs[p].ended) = NumStages /\ obs[p].wait > 0

\* the pool the claim binds a stage name to
BoundPool(name) ==
    CASE name = "radiology_report" -> "radiology_slots"
      [] name = "specialist_scheduling" -> "specialist_slots"
      [] OTHER -> "none"

Untouched(p) ==
    \A q \in Pools : ~InSeq(users[q], p) /\ ~InSeq(put_queue[q], p)

\* C10: while the timeout of a bound stage is pending its case holds a unit
\* of the stage's pool (so the timeout started after the grant and the unit
\* is held throughout); a waiting case has no timeout pending; when a stage
\* has ended and when the next one starts the case holds and awaits nothing;
\* during an unbound stage the case is in no pool.
C10_BoundStageDiscipline ==
    system \in Baselines =>
        /\ \A ev \in queue :
              /\ ev.kind = "timeout" =>
                    LET r == BoundPool(Stages[ev.stage])
                    IN IF r # "none"
                       THEN /\ InSeq(users[r], ev.pid)
                            /\ \A q \in Pools : ~InSeq(put_queue[q], ev.pid)
                            /\ \A q \in Pools \ {r} : ~InSeq(users[q], ev.pid)
                       ELSE Untouched(ev.pid)
              /\ ev.kind \in {"stage_init", "stage_end", "coord_end"} => Untouched(ev.pid)
        /\ \A r \in Pools : \A p \in Cases :
              InSeq(put_queue[r], p) =>
                  ~\E ev \in queue : ev.pid = p /\ ev.kind = "timeout"

\* the timeout of a bound stage is pending for a case that had to wait for
\* its unit, while another case waits
C10_Witness ==
    \E ev \in queue :
        /\ ev.kind = "timeout"
        /\ BoundPool(Stages[ev.stage]) # "none"
        /\ obs[ev.pid].wait > 0
        /\ put_queue[BoundPool(Stages[ev.stage])] # <<>>


\* the keys of a stage_times map, in insertion order
Keys(st) == [k \in 1..Len(st) |-> st[k][1]]

\* C11: every case in completed_patients has a stage_times map whose keys
\* are the seven pipeline stage names, each once, in execution order, and
\* has had its total_latency assigned (completion time minus the start_time
\* of its coordinator).
C11_LedgerEntriesComplete ==
    system \in Baselines =>
        \A i \in 1..Len(completed) :
            LET p == completed[i]
            IN /\ Keys(patients[p].stage_times) =
                     <<"radiology_report", "pcp_acknowledgment", "referral_processing",
                       "prior_authorization", "payer_review", "specialist_scheduling",
                       "patient_confirmation">>
               /\ start_time[p] >= 0
               /\ patients[p].total_latency = obs[p].done_at - start_time[p]

\* the ledger holds a case while another case is still in its pipeline
C11_Witness ==
    /\ completed # <<>>
    /\ \E p \in Cases : ~InSeq(completed, p) /\ patients[p].stage_times # <<>>


\* C12 (as stated): in the partial-automation policy the prior-authorization
\* stage of a case begins one day before its referral stage completes, or at
\* time 0 when that would be negative.
C12_PriorAuthOverlap ==
    system = "partial" =>
        \A p \in Cases :
            Len(obs[p].begun) >= 4 =>
                obs[p].begun[4][2] = Max(0, obs[p].ended[3][2] - PaOverlap)


\* a / b <= c / d for fractions with positive denominators
FracLeq(x, y) == x.num * y.den <= y.num * x.den

\* C13: virtual time never moves backward during a run: every step of a run
\* leaves env.now where it is or advances it, and the timestamps of the
\* records in HospitalEnvironment.data are non-decreasing in append order.
C13_TimeMonotone ==
    /\ [][(run_no' = run_no /\ mode' = mode) => now' >= now]_vars
    /\ [](\A i, j \in 1..Len(data) :
             i < j => FracLeq(data[i].Timestamp_Day, data[j].Timestamp_Day))

\* the log holds records of two patients out of id order at increasing times
C13_Witness ==
    \E i, j \in 1..Len(data) :
        /\ i < j
        /\ data[i].Patient_ID > data[j].Patient_ID
        /\ data[i].Timestamp_Day.num < data[j].Timestamp_Day.num
        /\ now >= data[j].Timestamp_Day.num


\* the generator state when env.run() of the scenario being run was entered
ScenarioStartRng ==
    IF mode = "Legacy" THEN SeedState(seed)
    ELSE AdvanceBy(SeedState(seed), NumEngineStages * n_patients)

Durations ==
    {<<ev.stage, ev.delay>> : ev \in {e \in queue : e.kind \in {"timeout", "journey_timeout"}}}
    \cup UNION {{<<k, patients[p].stage_times[k][2]>> : k \in 1..Len(patients[p].stage_times)} :
                   p \in DOMAIN patients}
    \cup {<<0, data[i].Duration_Hours>> : i \in 1..Len(data)}

ReferralFactor ==
    CASE system = "rulebased" -> 75
      [] system = "partial" -> 65
      [] OTHER -> 100

AgeDiagnosisClass(patient) ==
    CASE patient.age >= 70 \/ patient.diagnosis = "acute coronary syndrome" -> "HIGH"
      [] patient.age < 70 /\ patient.diagnosis # "acute coronary syndrome"
           /\ (patient.age >= 65 \/ patient.diagnosis = "cancer staging") -> "MEDIUM"
      [] OTHER -> "NORMAL"

\* C16 (as stated): when the simulated classifier takes its misclassification
\* branch, the class it returns is never the class the age/diagnosis rules
\* give for that case.
C16_MisclassifiedDiffers ==
    system = "partial" =>
        \A p \in Cases :
            obs[p].classified = "random" =>
                patients[p].priority # AgeDiagnosisClass(patients[p])

\* C17 (as stated): with ml_classification_accuracy configured at 1.0 every
\* classified case has the class the age/diagnosis rules give it.
C17_ConfiguredAccuracyUsed ==
    (system = "partial" /\ ml_classification_accuracy = 100) =>
        \A p \in Cases :
            obs[p].classified # "none" =>
                patients[p].priority = AgeDiagnosisClass(patients[p])


\* the diagnoses of the cohorts that contain an urgent keyword, and those
\* that contain a high-priority condition
UrgentDiagnoses == {"acute coronary syndrome", "cancer staging"}
HighPriorityDiagnoses == {"diabetes type 2", "hypertension", "acute coronary syndrome"}

\* the class the claim's precedence gives to an age and a diagnosis
UrgencyByPrecedence(age, diagnosis) ==
    CASE age >= 65 -> "HIGH"
      [] age < 65 /\ diagnosis \in UrgentDiagnoses -> "URGENT"
      [] age < 65 /\ diagnosis \notin UrgentDiagnoses
           /\ diagnosis \in HighPriorityDiagnoses -> "HIGH"
      [] OTHER -> "NORMAL"

\* C18: classify_urgency returns, for every age and diagnosis, the class of
\* the first matching rule in the order age >= 65 (HIGH), urgent keyword
\* (URGENT), high-priority condition (HIGH), default (NORMAL); every case the
\* rule-based policy has classified carries that class, one of the three, and
\* it depends only on the case's age and diagnosis.
C18_ClassifyUrgencyPrecedence ==
    /\ (now = 0 /\ next_arrival = 0) =>
          \A a \in AgeLow..AgeHigh : \A k \in 1..Len(Diagnoses) :
              classify_urgency([age |-> a, diagnosis |-> Diagnoses[k]])
                  = UrgencyByPrecedence(a, Diagnoses[k])
    /\ system = "rulebased" =>
          \A p \in Cases :
              obs[p].classified = "rule" =>
                  /\ patients[p].priority \in {"URGENT", "HIGH", "NORMAL"}
                  /\ patients[p].priority =
                         UrgencyByPrecedence(patients[p].age, patients[p].diagnosis)

\* a classified case the age rule and the urgent-keyword rule both match, and
\* a younger one the urgent-keyword rule matches
C18_Witness ==
    /\ system = "rulebased"
    /\ \E p, q \in Cases :
          /\ obs[p].classified = "rule" /\ obs[q].classified = "rule"
          /\ patients[p].age >= 65 /\ patients[q].age < 65
          /\ patients[p].diagnosis \in UrgentDiagnoses
          /\ patients[q].diagnosis \in UrgentDiagnoses
          /\ patients[p].priority = "HIGH" /\ patients[q].priority = "URGENT"


\* s is an initial segment of t
IsPrefix(s, t) == Len(s) <= Len(t) /\ \A k \in 1..Len(s) : s[k] = t[k]

C20_ZeroCapacityFailsAtConstruction ==
    (system \in Baselines
        /\ (config.radiology_slots_per_week = 0 \/ config.specialist_slots_per_week = 0)) =>
        /\ error = "ValueError"
        /\ now = 0 /\ queue = {} /\ eid = 0
        /\ completed = <<>> /\ trace = <<>> /\ run_no = 1
        /\ \A p \in Cases : obs[p].launch = -1 /\ obs[p].begun = <<>>

\* a runner given three cases and no specialist slot has ended with the error
C20_Witness ==
    /\ error = "ValueError"
    /\ n_patients = 3
    /\ config.radiology_slots_per_week > 0 /\ config.specialist_slots_per_week = 0


\* whether the stage parameters of cfg can yield a negative duration
InvalidStageParameter(cfg) ==
    \/ cfg.payer_min < 0
    \/ cfg.specialist_scale < 0

\* C21: a run under a configuration with an invalid stage parameter ends
\* with its error before virtual time has advanced, before any case is in
\* the ledger and before any case has executed a stage.
C21_InvalidParameterRejectedEagerly ==
    (system \in Baselines /\ InvalidStageParameter(config) /\ error # "none") =>
        /\ now = 0
        /\ completed = <<>>
        /\ \A p \in DOMAIN obs : obs[p].ended = <<>>


\* the number of events env.step() has executed in the environment of the
\* current run: every event scheduled is either pending or executed
Executed == eid - Cardinality(queue)

\* env.run() has been entered: the runners are modelled from there on, the
\* sensitivity script is between tests when its mode is "none"
RunEntered == system # "sensitivity" \/ mode # "none"

\* every case of the current run has finished its last stage
AllDone == \A p \in DOMAIN obs : obs[p].done_at >= 0

EventsOfRun ==
    IF system \in Baselines
    THEN n_patients * (2 + 5 * Cardinality({s \in 1..NumStages : PoolOf(s) # "none"})
                         + 3 * Cardinality({s \in 1..NumStages : PoolOf(s) = "none"}))
         + n_patients + 2
    ELSE n_patients * (NumEngineStages + 2)

C23_SecondCaseWaitsForRelease ==
    (/\ system \in Baselines
     /\ config.radiology_slots_per_week = 1
     /\ n_patients >= 2
     /\ obs[0].sampled # <<>>
     /\ obs[0].sampled[1][3] > InterArrival) =>
        /\ obs[0].begun[1] = <<1, 0>>
        /\ obs[0].timed # <<>> /\ obs[0].timed[1] = <<1, 0>>
        /\ obs[1].launch >= 0 => obs[1].launch = InterArrival
        /\ obs[1].timed # <<>> =>
              /\ obs[1].begun[1] = <<1, InterArrival>>
              /\ obs[0].ended # <<>>
              /\ obs[1].timed[1] = <<1, obs[0].ended[1][2]>>
              /\ obs[1].timed[1][2] > obs[1].begun[1][2]
              /\ obs[1].wait >= obs[1].timed[1][2] - obs[1].begun[1][2]
        /\ \A p \in {0, 1} : InSeq(completed, p) => patients[p].total_latency > 0

\* two cases on one radiology unit: the second waited, both have completed
C23_Witness ==
    /\ system = "fifo"
    /\ config.radiology_slots_per_week = 1
    /\ n_patients = 2
    /\ InSeq(completed, 0) /\ InSeq(completed, 1)
    /\ obs[1].timed[1][2] > InterArrival
    /\ obs[0].timed[1][2] = 0


\* C24: within a run, a step leaves every case of the ledger as it is, and
\* a step that changes the record of a case is the execution of an event of
\* that case's own coordination (its coordinate_patient or a stage process
\* it created).
C24_WritesOnlyByOwnerBeforeCompletion ==
    [][run_no' = run_no =>
         \A p \in DOMAIN patients :
            /\ InSeq(completed, p) => patients'[p] = patients[p]
            /\ patients'[p] # patients[p] =>
                  /\ queue # {}
                  /\ Earliest(queue).pid = p
                  /\ ~InSeq(completed, p)]_vars

\* a case is in the ledger while another case, whose record has been
\* written, is still in flight
C24_Witness ==
    \E p, q \in DOMAIN patients :
        /\ InSeq(completed, p)
        /\ ~InSeq(completed, q)
        /\ patients[q].stage_times # <<>>
        /\ queue # {}


\* the units the configuration gives pool r
ConfiguredUnits(r) ==
    IF r = "radiology_slots" THEN config.radiology_slots_per_week
    ELSE config.specialist_slots_per_week

\* pool r has a free unit and a case waiting for it
FreeWithWaiters(r) == Len(users[r]) < ConfiguredUnits(r) /\ put_queue[r] # <<>>

\* the Release event of a unit of pool r is pending for the current time
ReleasePending(r) ==
    \E ev \in queue : ev.kind = "release" /\ PoolOf(ev.stage) = r /\ ev.time = now

\* C27 (as stated): after any event has been processed, no pool has a free
\* unit and a non-empty wait queue.
C27_NeverFreeWithWaiters ==
    \A r \in Pools : ~FreeWithWaiters(r)

\* C27 (amended): a pool has a free unit and waiters only while the Release
\* event of the released unit is pending for the current time, and a waiting
\* case that is granted a unit is the head waiter, granted without the
\* clock having moved since the release.
C27_HeadWaiterGrantedAtReleaseTime ==
    /\ [](\A r \in Pools : FreeWithWaiters(r) => ReleasePending(r))
    /\ [][\A r \in Pools : \A p \in Cases :
            (InSeq(put_queue[r], p) /\ InSeq(users'[r], p)) =>
                /\ p = Head(put_queue[r])
                /\ ReleasePending(r)
                /\ now' = now]_vars

\* a unit has just been released while two cases wait for it
C27_Witness ==
    \E r \in Pools :
        /\ FreeWithWaiters(r)
        /\ Len(put_queue[r]) >= 2
        /\ ReleasePending(r)


\* the time at which case p started its process, once it has
StartedAt(p) == obs[p].begun[1][2]

\* C28 (as stated): in every run, case i starts its process at i times the
\* inter-arrival offset, so no two cases start at the same time.
C28_StaggeredEverywhere ==
    \A p \in DOMAIN obs :
        obs[p].begun # <<>> => StartedAt(p) = p * InterArrival

\* C28 (amended): in a baseline run case i is launched and starts its
\* coordination at i times the offset, so no two start together; in a
\* simulation_engine scenario every case starts at time 0.
C28_StaggeredInBaselines ==
    \A p \in DOMAIN obs :
        /\ system \in Baselines =>
              /\ obs[p].launch >= 0 => obs[p].launch = p * InterArrival
              /\ start_time[p] >= 0 => start_time[p] = p * InterArrival
              /\ obs[p].begun # <<>> => StartedAt(p) = p * InterArrival
              /\ \A q \in DOMAIN obs :
                    (q # p /\ obs[p].begun # <<>> /\ obs[q].begun # <<>>) =>
                        StartedAt(p) # StartedAt(q)
        /\ system = "engine" => (obs[p].begun # <<>> => StartedAt(p) = 0)

\* the whole cohort of a baseline run has been launched
C28_Witness ==
    /\ n_patients = MaxPatients
    /\ \A p \in DOMAIN obs : obs[p].begun # <<>>
    /\ system \in Baselines


\* the failure of case p's stage s is on its way to the caller or has
\* reached it
FailureOf(p, s) ==
    \/ \E ev \in queue : ev.kind \in {"stage_fail", "coord_fail"} /\ ev.pid = p
                          /\ ev.stage = s /\ ev.time = now
    \/ error = "ValueError"

\* C29: once a stage of a case has sampled a negative duration at time t, the
\* call has failed (the error is propagating or has ended the run), no
\* timeout of that stage is or was pending, the clock still reads t, and the
\* case has neither recorded that stage nor completed; every timeout that is
\* pending has a non-negative delay.
C29_NegativeTimeoutFails ==
    /\ \A p \in DOMAIN obs : \A k \in 1..Len(obs[p].sampled) :
          LET s == obs[p].sampled[k][1]
              d == obs[p].sampled[k][3]
              t == obs[p].sampled[k][4]
          IN d < 0 =>
                /\ FailureOf(p, s)
                /\ now = t
                /\ ~\E ev \in queue : ev.kind = "timeout" /\ ev.pid = p /\ ev.stage = s
                /\ ~\E i \in 1..Len(obs[p].timed) : obs[p].timed[i][1] = s
                /\ ~\E i \in 1..Len(obs[p].ended) : obs[p].ended[i][1] = s
                /\ ~\E i \in 1..Len(patients[p].stage_times) :
                        patients[p].stage_times[i][1] = Stages[s]
                /\ ~InSeq(completed, p)
    /\ \A ev \in queue :
          ev.kind \in {"timeout", "journey_timeout"} => ev.delay >= 0 /\ ev.time >= now

\* a negative duration was sampled mid-run and the run has ended with the
\* error
C29_Witness ==
    /\ error = "ValueError"
    /\ \E p \in DOMAIN obs : \E k \in 1..Len(obs[p].sampled) :
          obs[p].sampled[k][3] < 0 /\ obs[p].sampled[k][4] = now
    /\ now > 0


\* C30: every duration a simulation_engine scenario has drawn is
\* non-negative, drawn from the lognormal family in the Legacy scenario and
\* from the normal family in the Orchestrator scenario.
C30_FamilyByMode ==
    system = "engine" =>
        \A p \in DOMAIN obs : \A k \in 1..Len(obs[p].sampled) :
            /\ obs[p].sampled[k][3] >= 0
            /\ mode = "Legacy" => obs[p].sampled[k][2] = "lognormal"
            /\ mode \in {"Orchestrator", "Exported"} => obs[p].sampled[k][2] = "normal"


\* C25: whenever the sensitivity script is between tests, whatever tests
\* have run, the two module-level parameter tables hold their initial
\* values.
C25_BaseTablesUnchanged ==
    (system = "sensitivity" /\ pc.test = "none") =>
        /\ BASE_LEGACY_PARAMS = LEGACY_PARAMS
        /\ BASE_ORCHESTRATOR_PARAMS = ORCHESTRATOR_PARAMS


\* case p samples a stage duration in this step
Samples(p) == Len(obs'[p].sampled) = Len(obs[p].sampled) + 1

\* the stage whose duration case p samples in this step
SampledStage(p) == obs'[p].sampled[Len(obs'[p].sampled)][1]

\* the no-show factor of the policy, in percent of the configured probability
NoShowFactor ==
    CASE system = "fifo" -> 100
      [] system = "rulebased" -> 67
      [] system = "partial" -> 50

\* C31 (as stated): every step in which a case samples a stage duration
\* advances the generator by exactly one draw.
C31_OneDrawPerSampling ==
    [][\A p \in DOMAIN obs :
          (p \in DOMAIN obs' /\ Samples(p)) => rng' = Advance(rng)]_vars

\* C31 (amended): a sampling consumes one draw, except the patient
\* confirmation of a baseline, which consumes one draw when the patient
\* confirms and two (the no-show test and the rescheduling delay) when the
\* patient does not show.
C31_OneDrawExceptNoShow ==
    [][\A p \in DOMAIN obs :
          (p \in DOMAIN obs' /\ Samples(p)) =>
              IF /\ system \in Baselines
                 /\ SampledStage(p) = NumStages
                 /\ NoShow(config, DrawAt(rng, 0), NoShowFactor)
              THEN rng' = Advance(Advance(rng)) /\ rng' # Advance(rng)
              ELSE rng' = Advance(rng)]_vars

\* two cases of one run have completed, one after a no-show and one after a
\* confirmation, so they consumed eight and seven draws
C31_Witness ==
    /\ system \in Baselines
    /\ \E p, q \in DOMAIN obs :
          /\ obs[p].done_at >= 0 /\ obs[q].done_at >= 0
          /\ Len(obs[p].sampled) = NumStages /\ Len(obs[q].sampled) = NumStages
          /\ obs[p].sampled[NumStages][3] \in
                {FifoConfirmDelay, RuleConfirmDelay, PartialConfirmDelay}
          /\ obs[q].sampled[NumStages][3] \notin
                {FifoConfirmDelay, RuleConfirmDelay, PartialConfirmDelay}


\* a call of get_next_patient happens in this step
Calls == Len(returned') = Len(returned) + 1

\* what that call returned
Result == returned'[Len(returned')]

\* C32: a call of get_next_patient returns and removes the head of the
\* urgent queue when that queue is non-empty, else the head of the normal
\* queue, else returns None and removes nothing; so what it returns is
\* normal only when no urgent patient is queued, and each queue is left in
\* the order in which it was filled.
C32_UrgentFirstThenFifo ==
    [][Calls =>
          /\ urgent_queue # <<>> =>
                /\ Result = Head(urgent_queue)
                /\ urgent_queue' = Tail(urgent_queue)
                /\ normal_queue' = normal_queue
          /\ (urgent_queue = <<>> /\ normal_queue # <<>>) =>
                /\ Result = Head(normal_queue)
                /\ normal_queue' = Tail(normal_queue)
                /\ urgent_queue' = urgent_queue
          /\ (urgent_queue = <<>> /\ normal_queue = <<>>) =>
                /\ Result = -1
                /\ UNCHANGED <<urgent_queue, normal_queue>>
          /\ (Result # -1 /\ triage_patient(patients[Result]) = "normal") =>
                urgent_queue = <<>>
          /\ \A i, j \in 1..Len(returned') :
                (/\ i < j /\ returned'[j] # -1
                 /\ triage_patient(patients[returned'[i]]) =
                        triage_patient(patients[returned'[j]])) =>
                    returned'[i] < returned'[j]]_vars

\* the caller has drained a cohort in which a normal patient arrived before
\* an urgent one: the urgent one was returned first, None last
C32_Witness ==
    /\ Len(returned) >= 3
    /\ returned[Len(returned)] = -1
    /\ returned[1] > returned[2]
    /\ triage_patient(patients[returned[1]]) = "urgent"
    /\ triage_patient(patients[returned[2]]) = "normal"


\* the second of two direct calls of run_single_simulation has returned
SecondCallReturned ==
    system = "sensitivity" /\ pc.test = "direct" /\ pc.i = 2 /\ mode = "Returned"

\* C33: two calls of sensitivity_analysis.run_single_simulation with the
\* same patient count, the same parameter tables and the same seed, seed 0
\* included, return identical result tables, whatever the generator's state
\* before each call.
C33_SameSeedSameTable == SecondCallReturned => all_results = prev_ledger


\* the number of units of pool r that case p holds
Held(r, p) == Cardinality({i \in 1..Len(users[r]) : users[r][i] = p})

\* the cases of the run that have not completed
Unfinished == {p \in DOMAIN patients : ~InSeq(completed, p)}

\* case p waits for a grant on some pool
Waits(p) == \E r \in Pools : InSeq(put_queue[r], p)

\* C34: a case holds at most one unit over both pools and does not wait on a
\* pool while it holds a unit; and in no state of a run are all unfinished
\* cases waiting on a pool, nor is the event heap empty while a case is
\* unfinished.
C34_OneUnitNoHoldAndWait ==
    system \in Baselines =>
        /\ \A p \in DOMAIN patients :
              /\ Held("radiology_slots", p) + Held("specialist_slots", p) <= 1
              /\ Waits(p) => \A r \in Pools : Held(r, p) = 0
        /\ Unfinished # {} => \E p \in Unfinished : ~Waits(p)
        /\ (error = "none" /\ Unfinished # {}) => queue # {}

\* a case that held a radiology unit earlier holds a specialist unit, the
\* radiology pool is free again, and two other cases wait for the specialist
C34_Witness ==
    /\ system \in Baselines
    /\ users["radiology_slots"] = <<>>
    /\ \E q \in DOMAIN patients :
          /\ Held("specialist_slots", q) = 1
          /\ Len(put_queue["specialist_slots"]) = 2
          /\ ~Waits(q)


\* case b is granted a unit of pool r in this step
GrantedNow(r, b) == ~InSeq(users[r], b) /\ InSeq(users'[r], b)

UrgentDiagnosis(p) == \E k \in UrgentKeywordsFifo : Contains(patients[p].diagnosis, k)

\* queue q holds the cases of set S, each once, in arrival order
HoldsInArrivalOrder(q, S) ==
    /\ {q[i] : i \in 1..Len(q)} = S
    /\ \A i, j \in 1..Len(q) :
          i < j => q[i] < q[j] /\ obs[q[i]].launch <= obs[q[j]].launch

\* a state of a run of the FIFO baseline, the caller having taken nothing
\* from the queues
InFifoRun == system = "fifo" /\ returned = <<>>

\* C36: in a run of the FIFO baseline the cases that have arrived are, in
\* arrival order, in urgent_queue when their diagnosis contains an urgent
\* keyword and in normal_queue otherwise, and in no state of the run in
\* both; no step of the run takes a case out of a queue, and when the run
\* has ended the two queues together hold the whole cohort.
C36_QueuesKeepEveryArrival ==
    /\ [](InFifoRun =>
            LET Arrived == {p \in DOMAIN patients : p < next_arrival}
            IN /\ HoldsInArrivalOrder(urgent_queue, {p \in Arrived : UrgentDiagnosis(p)})
               /\ HoldsInArrivalOrder(normal_queue, {p \in Arrived : ~UrgentDiagnosis(p)})
               /\ (RunDone /\ error = "none") =>
                      Len(urgent_queue) + Len(normal_queue) = n_patients)
    /\ [][(InFifoRun /\ returned' = <<>> /\ run_no' = run_no) =>
            /\ Len(urgent_queue') >= Len(urgent_queue)
            /\ Len(normal_queue') >= Len(normal_queue)
            /\ SubSeq(urgent_queue', 1, Len(urgent_queue)) = urgent_queue
            /\ SubSeq(normal_queue', 1, Len(normal_queue)) = normal_queue]_vars

\* a run of three cases has ended with cases in both queues, every case
\* completed and none taken out
C36_Witness ==
    /\ InFifoRun /\ RunDone /\ error = "none"
    /\ n_patients = 3 /\ Len(completed) = 3
    /\ urgent_queue # <<>> /\ normal_queue # <<>>
    /\ Len(urgent_queue) + Len(normal_queue) = 3


\* the time at which stage k of case p finished
EndedAt(p, k) == obs[p].ended[k][2]

\* all seven stages of case p have finished, in pipeline order, by time t
AllStagesEndedBy(p, t) ==
    /\ Len(obs[p].ended) = NumStages
    /\ \A k \in 1..NumStages : obs[p].ended[k][1] = k /\ EndedAt(p, k) <= t
    /\ Len(patients[p].stage_times) = NumStages

\* C37: completed_patients is in order of completion, the case at an earlier
\* position completed no later than the case at a later one; a case is put
\* at the end of the ledger, at its completion time, and only when all seven
\* of its stages have finished.
C37_LedgerByCompletionAfterSevenStages ==
    /\ [](system \in Baselines =>
            /\ \A i, j \in 1..Len(completed) :
                  i < j => obs[completed[i]].done_at <= obs[completed[j]].done_at
            /\ \A i \in 1..Len(completed) :
                  AllStagesEndedBy(completed[i], obs[completed[i]].done_at))
    /\ [][(system \in Baselines /\ run_no' = run_no /\ completed' # completed) =>
            \E p \in Cases :
                /\ completed' = Append(completed, p)
                /\ ~InSeq(completed, p)
                /\ AllStagesEndedBy(p, now')
                /\ obs'[p].done_at = now']_vars

\* three cases stand in the ledger, completed at three different times, the
\* last of them one that had to wait for a unit
C37_Witness ==
    /\ system \in Baselines /\ Len(completed) = 3
    /\ obs[completed[1]].done_at < obs[completed[2]].done_at
    /\ obs[completed[2]].done_at < obs[completed[3]].done_at
    /\ obs[completed[3]].wait > 0


RECURSIVE LoggedHours(_, _)
\* the sum of the durations of the first k records of log
LoggedHours(log, k) ==
    IF k = 0 THEN 0 ELSE LoggedHours(log, k - 1) + log[k].Duration_Hours

\* the time a record was logged with, in hours, when it is a whole number
\* of ticks
LoggedAt(rec) ==
    (rec.Timestamp_Day.num * HoursPerDay) \div rec.Timestamp_Day.den

\* C38: in a scenario of simulation_engine the log holds at most six
\* records of a patient, the k-th for the k-th stage of the pipeline, logged
\* with the time at which that stage finished, which is the sum of the
\* patient's first k logged durations; when the scenario has run, every
\* patient has exactly six records and their durations add up to the time
\* at which the patient finished.
C38_SixRecordsCumulativeTimes ==
    system \in Engines =>
        \A p \in DOMAIN obs :
            LET log == JourneyLog(p)
            IN /\ Len(log) <= NumEngineStages
               /\ Len(log) = Len(obs[p].ended)
               /\ \A k \in 1..Len(log) :
                     /\ log[k].Stage = EngineStages[k]
                     /\ mode \in {"Legacy", "Orchestrator"} => log[k].Scenario = mode
                     /\ log[k].Timestamp_Day.num * HoursPerDay =
                            EndedAt(p, k) * log[k].Timestamp_Day.den
                     /\ LoggedAt(log[k]) = LoggedHours(log, k)
               /\ (RunDone /\ mode \in {"Legacy", "Orchestrator"}) =>
                     /\ Len(log) = NumEngineStages
                     /\ LoggedHours(log, NumEngineStages) = obs[p].done_at

\* the Orchestrator scenario has run for three patients who finished at
\* three different times
C38_Witness ==
    /\ system = "engine" /\ mode = "Orchestrator" /\ RunDone
    /\ n_patients = 3 /\ Len(data) = 3 * NumEngineStages
    /\ obs[0].done_at # obs[1].done_at /\ obs[1].done_at # obs[2].done_at
    /\ obs[0].done_at # obs[2].done_at

====
